---- MODULE Spec2Model ----
(***************************************************************************)
(* Employer analytics pipeline of backend/services/employer_service.py and *)
(* the two-tier frame cache of backend/services/resident_service.py.       *)
(*                                                                         *)
(* Pandas frames are modelled as sets of rows (records); a dict as a       *)
(* function whose DOMAIN is the key set; the list `events` as a bag, since *)
(* its only consumer is groupby(...).sum().                                *)
(***************************************************************************)
EXTENDS Integers, Sequences, FiniteSets, Bags, TLC

\* ------------------------------------------------------------------ bounds
\* Chunk files 1..NumChunks may exist; a file holds at most MaxRecs rows.
NumChunks == 3
MaxRecs == 2

\* ------------------------------------------------- values and fixtures
\* The sentinel the streaming turnover path writes for a blank jobId.
Unemployed == -1
\* pandas' missing value (a blank cell, a shift() hole, a failed map()): an
\* integer no id, count or difference of counts of the model can take.
NaN == -1000000
\* Python's None, the result of dict.get on a missing key.
None == -3

\* The participants the logs speak of.
Participants == {1, 2}

\* Jobs.csv after _load_jobs: one row per jobId.  Jobs 1 and 3 belong to the
\* same employer; job 4 occurs in the logs but has no Jobs.csv row.
JobsCsv ==
  { [jobId |-> 1, employerId |-> 1],
    [jobId |-> 2, employerId |-> 2],
    [jobId |-> 3, employerId |-> 1] }

LogJobIds == {1, 2, 3, 4}

\* jobs.set_index('jobId')['employerId'].to_dict()
job_to_employer ==
  [ j \in { r.jobId : r \in JobsCsv } |->
      (CHOOSE r \in JobsCsv : r.jobId = j).employerId ]

\* dict.get(key): None when the key is missing.
DictGet(d, k) == IF k \in DOMAIN d THEN d[k] ELSE None

\* A faulty map: a key that is missing falls to an employer of its own.
SeriesMapDefault(d, k) == IF k \in DOMAIN d THEN d[k] ELSE 3

\* Series.map(dict): NaN when the key is missing.
SeriesMap(d, k) == IF k \in DOMAIN d THEN d[k] ELSE NaN

\* A faulty update: the map is replaced, the keys missing from `other` are
\* forgotten.
DictReplace(d, other) == other

\* A faulty update: a key the map already holds keeps its old value.
DictUpdateKeepOld(d, other) ==
  [ k \in (DOMAIN d) \cup (DOMAIN other) |->
      IF k \in DOMAIN d THEN d[k] ELSE other[k] ]

\* dict.update(other)
DictUpdate(d, other) ==
  [ k \in (DOMAIN d) \cup (DOMAIN other) |->
      IF k \in DOMAIN other THEN other[k] ELSE d[k] ]

\* ts.strftime('%Y-%m'): the calendar month a timestamp falls in.
\* Timestamps are sampling instants 1, 2, ...; instant 4 opens the second
\* month, and every month after the first has four instants (two days).
MonthOf(ts) == ts \div 4

\* ------------------------------------------------------ log chunk files
\* The timestamps of chunk file i: the corpus is sliced by time, two
\* sampling instants to a file.
ChunkTimestamps(i) == { 2 * i - 1, 2 * i }

ChunkRecords(i) ==
  [ timestamp : ChunkTimestamps(i),
    participantId : Participants,
    jobId : LogJobIds \cup {NaN} ]

RECURSIVE FramesUpTo(_, _)
FramesUpTo(R, n) ==
  IF n = 0 THEN { {} }
  ELSE LET S == FramesUpTo(R, n - 1)
       IN  S \cup UNION { { s \cup {r} :
                              r \in { x \in R : \A y \in s :
                                        ~ ( y.participantId = x.participantId
                                            /\ y.timestamp = x.timestamp ) } }
                          : s \in S }

\* What read_csv can return for ParticipantStatusLogs<i>.csv: frames of at
\* most MaxRecs rows, one row per (participantId, timestamp).
ChunkFrames(i) == FramesUpTo(ChunkRecords(i), MaxRecs)

\* ------------------------------------------------------------- variables
VARIABLES
  t_pc,           \* position in _process_turnover: "start", "loop", "aggregate", "done"
  t_i,            \* the chunk id the reader loop of _process_turnover is at
  last_job_map,   \* _process_turnover: participantId -> jobId
  events,         \* _process_turnover: the events list, as a bag
  processed,      \* history: the rows of the frame just processed, each with
                  \* its prev_jobId, the events appended for it and the
                  \* participant's previous observation in the log
  appended,       \* history: the events appended to `events` by the last step
  hist,           \* history: per participant, what the files read so far say
  f_pc,           \* position in _process_job_flows: "start", "loop", "aggregate", "done"
  f_i,            \* the chunk id the reader loop of _process_job_flows is at
  f_last_job_map, \* _process_job_flows: participantId -> jobId
  transitions,    \* _process_job_flows: the transitions list, as a bag
  job_flows,      \* the frame _process_job_flows returns and saves
  b_pc,           \* position in build_employer_datasets: "turnover", "save", "done"
  meta,           \* build_employer_datasets: the frame of step 1
  emp_counts,     \* build_employer_datasets: the frame of step 3
  turnover,       \* build_employer_datasets: the frame of step 4
  employer_meta_csv,  \* processed/employer_meta.csv
  turnover_csv,       \* processed/turnover.csv
  unified_pkl,        \* processed/unified_employer_dataset.pkl
  response,       \* the last turnover read: its arguments, the frames it
                  \* loaded and the records it returned
  raw_mtime,      \* resident service: the latest mtime of raw/*.csv
  DATA_CACHE,     \* resident service: the module global _DATA_CACHE
  disk_cache,     \* processed/resident_data_cache.pkl
  served,         \* history: what the last _get_data call returned, from
                  \* which tier, and the source mtime at that moment
  n_pc,           \* position in _process_tenure: "start", "loop", "aggregate", "done"
  n_i,            \* the chunk id the reader loop of _process_tenure is at
  tenure_map,     \* _process_tenure: (participantId, jobId) -> [min_ts, max_ts]
  seen,           \* history: the (participantId, jobId, timestamp) rows the
                  \* tenure pass has met so far
  tenure_grp,     \* _process_tenure: the frame grp, one row per resolved pair
  tenure,         \* the frame _process_tenure returns and saves
  c_pc,           \* position in _process_employee_counts
  c_i,            \* the chunk id the reader loop of _process_employee_counts is at
  c_rows,         \* _process_employee_counts: the list `rows` of per-chunk aggregates
  observed,       \* history: the (day, employerId, participantId) sightings
                  \* the counting pass has met so far
  logs,           \* raw/ParticipantStatusLogs<i>.csv, i = 1 .. NumChunks
  sample_rate,    \* the sample_rate the builds are called with
  builds,         \* per call of build_employer_datasets: its position, its
                  \* arguments and locals, what it returned, and (history)
                  \* what the reads loaded when it started
  employee_counts_csv,  \* processed/employee_counts.csv
  job_flows_csv,        \* processed/job_flows.csv
  tenure_csv,           \* processed/tenure.csv
  written,        \* history: per processed file, the call that wrote it last
  call            \* the last function called as a whole: its name, its
                  \* path, the frames it loaded and what it returned

turnoverVars == << t_pc, t_i, last_job_map, events, processed, appended, hist >>

flowVars == << f_pc, f_i, f_last_job_map, transitions, job_flows >>

tableVars ==
  << b_pc, meta, emp_counts, turnover, employer_meta_csv, turnover_csv,
     unified_pkl, response >>

cacheVars == << raw_mtime, DATA_CACHE, disk_cache, served >>

tenureVars == << n_pc, n_i, tenure_map, seen, tenure_grp, tenure >>

countVars == << c_pc, c_i, c_rows, observed >>

buildVars ==
  << logs, sample_rate, builds, employee_counts_csv, job_flows_csv, tenure_csv,
     written >>

vars ==
  << turnoverVars, flowVars, tableVars, cacheVars, tenureVars, countVars,
     buildVars, call >>

\* ----------------------------------------- _process_turnover, streaming
\* df['jobId'].fillna(-1): a blank jobId becomes the Unemployed sentinel.
FillUnemployed(df) ==
  { [ r EXCEPT !.jobId = IF r.jobId = NaN THEN Unemployed ELSE r.jobId ]
      : r \in df }

\* The record of the same participant that precedes r once the frame is
\* sorted by timestamp, as a set of at most one row.
Preceding(df, r) ==
  LET before == { q \in df : q.participantId = r.participantId
                              /\ q.timestamp < r.timestamp }
  IN  { q \in before : \A q2 \in before : q2.timestamp <= q.timestamp }

\* A faulty shift: the jobId of the row above in the sorted frame, whose
\* participant it may not be.
ShiftJobUngrouped(df, r) ==
  LET before == { q \in df : \/ q.timestamp < r.timestamp
                             \/ /\ q.timestamp = r.timestamp
                                /\ q.participantId < r.participantId }
  IN  IF before = {} THEN NaN
      ELSE (CHOOSE q \in before :
              \A q2 \in before :
                \/ q2.timestamp < q.timestamp
                \/ /\ q2.timestamp = q.timestamp
                   /\ q2.participantId <= q.participantId).jobId

\* groupby('participantId')['jobId'].shift(1) on the sorted frame.
ShiftJob(df, r) ==
  IF Preceding(df, r) = {} THEN NaN
  ELSE (CHOOSE q \in Preceding(df, r) : TRUE).jobId

\* A faulty carry-over: the holes of the shifted column stay holes.
CarryNothing(ljm, r, shifted) == shifted

\* prev_jobId: the shifted jobId, its holes filled from the carried map.
CarryPrev(ljm, r, shifted) ==
  IF shifted = NaN THEN SeriesMap(ljm, r.participantId) ELSE shifted

AddPrev(df, ljm) ==
  { [ timestamp |-> r.timestamp, participantId |-> r.participantId,
      jobId |-> r.jobId,
      prev_jobId |-> CarryPrev(ljm, r, ShiftJob(df, r)) ] : r \in df }

\* df['jobId'] != df['prev_jobId']; NaN differs from every jobId.
IsChange(jobId, prev_jobId) == jobId # prev_jobId

ChangedRows(dfp) == { r \in dfp : IsChange(r.jobId, r.prev_jobId) }

\* The latest row of participant p in a frame.
LastRow(df, p) ==
  CHOOSE r \in df : r.participantId = p
      /\ \A q \in df : q.participantId = p => q.timestamp <= r.timestamp

\* A faulty carry map: each participant's first job of the frame.
FirstJobs(df) ==
  [ p \in { r.participantId : r \in df } |->
      (CHOOSE r \in df :
         /\ r.participantId = p
         /\ \A q \in df : q.participantId = p => q.timestamp >= r.timestamp).jobId ]

\* df.groupby('participantId')['jobId'].last() on the sorted frame.
LastJobs(df) ==
  [ p \in { r.participantId : r \in df } |-> LastRow(df, p).jobId ]

\* None if (isna(j) or j == -1) else job_to_employer.get(int(j))
ResolveEmployer(j) ==
  IF j = NaN \/ j = Unemployed THEN None ELSE DictGet(job_to_employer, j)

Event(month, employerId, hires, quits, switches) ==
  [ month |-> month, employerId |-> employerId,
    hires |-> hires, quits |-> quits, switches |-> switches ]

\* A faulty classification: a change between two resolved jobs is a switch
\* even when both belong to one employer.
ClassifyAnyPair(month, prev_emp, curr_emp) ==
  IF prev_emp = None /\ curr_emp # None
    THEN << [ month |-> month, employerId |-> curr_emp,
              hires |-> 1, quits |-> 0, switches |-> 0 ] >>
  ELSE IF prev_emp # None /\ curr_emp = None
    THEN << [ month |-> month, employerId |-> prev_emp,
              hires |-> 0, quits |-> 1, switches |-> 0 ] >>
  ELSE IF prev_emp # None /\ curr_emp # None
    THEN << [ month |-> month, employerId |-> prev_emp,
              hires |-> 0, quits |-> 1, switches |-> 1 ],
            [ month |-> month, employerId |-> curr_emp,
              hires |-> 1, quits |-> 0, switches |-> 0 ] >>
  ELSE << >>

\* The events appended for one changed row.
Classify(month, prev_emp, curr_emp) ==
  IF prev_emp = None /\ curr_emp # None
    THEN << Event(month, curr_emp, 1, 0, 0) >>
  ELSE IF prev_emp # None /\ curr_emp = None
    THEN << Event(month, prev_emp, 0, 1, 0) >>
  ELSE IF prev_emp # None /\ curr_emp # None /\ prev_emp # curr_emp
    THEN << Event(month, prev_emp, 0, 1, 1), Event(month, curr_emp, 1, 0, 0) >>
  ELSE << >>

RowEvents(row) ==
  Classify(MonthOf(row.timestamp),
           ResolveEmployer(row.prev_jobId), ResolveEmployer(row.jobId))

SeqToBag(s) ==
  LET elems == { s[k] : k \in 1..Len(s) }
  IN  [ e \in elems |-> Cardinality({ k \in 1..Len(s) : s[k] = e }) ]

\* for _, row in changed.iterrows(): events.append(...)
RECURSIVE BagOfRows(_)
BagOfRows(rows) ==
  IF rows = {} THEN EmptyBag
  ELSE LET r == CHOOSE x \in rows : TRUE
       IN  SeqToBag(RowEvents(r)) (+) BagOfRows(rows \ {r})

\* ------------------------------------------------------------- history
\* What the log says about a participant before one of its records: the
\* chunk and raw jobId of its previous record (chunk 0: there is none).
NoPrior == [ chunk |-> 0, jobId |-> NaN ]

PriorOf(h, i, raw, r) ==
  IF Preceding(raw, r) # {}
    THEN [ chunk |-> i, jobId |-> (CHOOSE q \in Preceding(raw, r) : TRUE).jobId ]
  ELSE IF r.participantId \in DOMAIN h
    THEN [ chunk |-> h[r.participantId].chunk, jobId |-> h[r.participantId].jobId ]
  ELSE NoPrior

\* The rows of the frame just processed.  dfp is the code's frame with its
\* prev_jobId column, raw the file as read.
Processed(h, i, raw, dfp) ==
  { [ chunk |-> i, row |-> r,
      first |-> \A q \in raw : q.participantId = r.participantId
                                   => r.timestamp <= q.timestamp,
      changed |-> r \in ChangedRows(dfp),
      events |-> IF r \in ChangedRows(dfp) THEN RowEvents(r) ELSE << >>,
      prior |-> PriorOf(h, i, raw, r) ] : r \in dfp }

RowsOf(rows, p) == { x \in rows : x.row.participantId = p }

RECURSIVE CountEvents(_)
CountEvents(rows) ==
  IF rows = {} THEN 0
  ELSE LET x == CHOOSE y \in rows : TRUE
       IN  Len(x.events) + CountEvents(rows \ {x})

\* hist after a frame: the chunk and raw jobId of the participant's latest
\* record, whether all its records so far carry one and the same jobId,
\* and the number of events appended for its rows.
HistAfter(h, i, raw, rows) ==
  [ p \in (DOMAIN h) \cup { r.participantId : r \in raw } |->
      IF p \in { r.participantId : r \in raw }
        THEN [ chunk |-> i,
               jobId |-> LastRow(raw, p).jobId,
               steady |-> /\ \A r \in raw : r.participantId = p
                                => r.jobId = LastRow(raw, p).jobId
                          /\ p \in DOMAIN h
                                => h[p].steady /\ h[p].jobId = LastRow(raw, p).jobId,
               nEvents |-> (IF p \in DOMAIN h THEN h[p].nEvents ELSE 0)
                             + CountEvents(RowsOf(rows, p)) ]
        ELSE h[p] ]

\* ------------------------------------------------- the streaming loop
\* all_logs_df is None (sample_rate = 1): read the files one by one.
TurnoverStartStreaming ==
  /\ t_pc = "start"
  /\ t_pc' = "loop"
  /\ UNCHANGED << t_i, last_job_map, events, processed, appended, hist >>
  /\ UNCHANGED << flowVars, tableVars, cacheVars, tenureVars,
                  countVars, buildVars, call >>

\* The reader skips a chunk id whose file does not exist.
TurnoverSkipMissing ==
  /\ t_pc = "loop" /\ t_i <= NumChunks
  /\ t_i' = t_i + 1
  /\ processed' = {}
  /\ appended' = EmptyBag
  /\ UNCHANGED << t_pc, last_job_map, events, hist >>
  /\ UNCHANGED << flowVars, tableVars, cacheVars, tenureVars,
                  countVars, buildVars, call >>

\* One iteration of `for df in _iter_participant_status_logs()`.
TurnoverChunk ==
  /\ t_pc = "loop" /\ t_i <= NumChunks
  /\ \E raw \in ChunkFrames(t_i) :
       LET df  == FillUnemployed(raw)
           dfp == AddPrev(df, last_job_map)
           rows == Processed(hist, t_i, raw, dfp)
       IN  /\ t_i' = t_i + 1
           /\ processed' = rows
           /\ hist' = HistAfter(hist, t_i, raw, rows)
           /\ IF df = {}
                THEN UNCHANGED << last_job_map, events >>
                ELSE /\ last_job_map' = DictUpdate(last_job_map, LastJobs(df))
                     /\ events' = events (+) BagOfRows(ChangedRows(dfp))
  /\ appended' = events' (-) events
  /\ UNCHANGED t_pc
  /\ UNCHANGED << flowVars, tableVars, cacheVars, tenureVars,
                  countVars, buildVars, call >>

TurnoverLoopEnd ==
  /\ t_pc = "loop" /\ t_i > NumChunks
  /\ t_pc' = "aggregate"
  /\ processed' = {}
  /\ appended' = EmptyBag
  /\ UNCHANGED << t_i, last_job_map, events, hist >>
  /\ UNCHANGED << flowVars, tableVars, cacheVars, tenureVars,
                  countVars, buildVars, call >>

\* ----------------------------------------- _process_turnover, preloaded
\* all_logs_df as build_employer_datasets hands it over (sample_rate > 1):
\* the rows of all files, those with a blank jobId dropped.
PreloadedFrames ==
  FramesUpTo([ timestamp : UNION { ChunkTimestamps(i) : i \in 1..NumChunks },
               participantId : Participants,
               jobId : LogJobIds ], MaxRecs)

\* The value both columns' holes are filled with before the comparison.
FillValue == -9999

FillNa(x) == IF x = NaN THEN FillValue ELSE x

\* ~(all_df['jobId'].fillna(-9999) == all_df['prev_jobId'].fillna(-9999))
IsChangePreloaded(jobId, prev_jobId) == ~ (FillNa(jobId) = FillNa(prev_jobId))

\* sort_values(['participantId', 'timestamp']) and the shifted jobId.
AddPrevPreloaded(all_df) ==
  { [ timestamp |-> r.timestamp, participantId |-> r.participantId,
      jobId |-> r.jobId, prev_jobId |-> ShiftJob(all_df, r) ] : r \in all_df }

ChangedRowsPreloaded(dfp) ==
  { r \in dfp : IsChangePreloaded(r.jobId, r.prev_jobId) }

\* The second copy of the classification, in the preloaded branch.
ClassifyPreloaded(month, prev_emp, curr_emp) ==
  IF prev_emp = None /\ curr_emp # None
    THEN << Event(month, curr_emp, 1, 0, 0) >>
  ELSE IF prev_emp # None /\ curr_emp = None
    THEN << Event(month, prev_emp, 0, 1, 0) >>
  ELSE IF prev_emp # None /\ curr_emp # None /\ prev_emp # curr_emp
    THEN << Event(month, prev_emp, 0, 1, 1), Event(month, curr_emp, 1, 0, 0) >>
  ELSE << >>

RowEventsPreloaded(row) ==
  ClassifyPreloaded(MonthOf(row.timestamp),
                    ResolveEmployer(row.prev_jobId), ResolveEmployer(row.jobId))

RECURSIVE BagOfRowsPreloaded(_)
BagOfRowsPreloaded(rows) ==
  IF rows = {} THEN EmptyBag
  ELSE LET r == CHOOSE x \in rows : TRUE
       IN  SeqToBag(RowEventsPreloaded(r)) (+) BagOfRowsPreloaded(rows \ {r})

\* The rows of the preloaded frame (chunk 0: no file of its own).
ProcessedPreloaded(all_df, dfp) ==
  { [ chunk |-> 0, row |-> r,
      first |-> Preceding(all_df, r) = {},
      changed |-> r \in ChangedRowsPreloaded(dfp),
      events |-> IF r \in ChangedRowsPreloaded(dfp)
                   THEN RowEventsPreloaded(r) ELSE << >>,
      prior |-> PriorOf(<< >>, 0, all_df, r) ] : r \in dfp }

TurnoverPreloaded ==
  /\ t_pc = "start"
  /\ \E all_df \in PreloadedFrames :
       LET dfp == AddPrevPreloaded(all_df)
       IN  /\ events' = BagOfRowsPreloaded(ChangedRowsPreloaded(dfp))
           /\ processed' = ProcessedPreloaded(all_df, dfp)
  /\ appended' = events' (-) events
  /\ t_pc' = "aggregate"
  /\ UNCHANGED << t_i, last_job_map, hist >>
  /\ UNCHANGED << flowVars, tableVars, cacheVars, tenureVars,
                  countVars, buildVars, call >>

\* ------------------------------------------------------ _process_job_flows
\* df.dropna(subset=['jobId']): rows with a blank jobId are removed.
DropNaJob(df) == { r \in df : r.jobId # NaN }

\* A faulty transition: a change of job inside one employer counts as a flow.
FlowOfRowAnyPair(row) ==
  IF row.prev_jobId = NaN \/ row.jobId = NaN THEN << >>
  ELSE LET prev_emp == DictGet(job_to_employer, row.prev_jobId)
           curr_emp == DictGet(job_to_employer, row.jobId)
       IN  IF prev_emp = None \/ curr_emp = None THEN << >>
           ELSE << [ fromEmployer |-> prev_emp, toEmployer |-> curr_emp ] >>

\* The transition appended for one changed row, if any.
FlowOfRow(row) ==
  IF row.prev_jobId = NaN \/ row.jobId = NaN THEN << >>
  ELSE LET prev_emp == DictGet(job_to_employer, row.prev_jobId)
           curr_emp == DictGet(job_to_employer, row.jobId)
       IN  IF prev_emp = None \/ curr_emp = None THEN << >>
           ELSE IF prev_emp = curr_emp THEN << >>
           ELSE << [ fromEmployer |-> prev_emp, toEmployer |-> curr_emp ] >>

RECURSIVE BagOfFlows(_)
BagOfFlows(rows) ==
  IF rows = {} THEN EmptyBag
  ELSE LET r == CHOOSE x \in rows : TRUE
       IN  SeqToBag(FlowOfRow(r)) (+) BagOfFlows(rows \ {r})

\* tdf.groupby(['fromEmployer', 'toEmployer']).size().reset_index(name='count')
GroupSize(bag) ==
  { [ fromEmployer |-> t.fromEmployer, toEmployer |-> t.toEmployer,
      count |-> CopiesIn(t, bag) ] : t \in BagToSet(bag) }

FlowsStartStreaming ==
  /\ f_pc = "start"
  /\ f_pc' = "loop"
  /\ UNCHANGED << f_i, f_last_job_map, transitions, job_flows >>
  /\ UNCHANGED << turnoverVars, tableVars, cacheVars, tenureVars,
                  countVars, buildVars, call >>

FlowsSkipMissing ==
  /\ f_pc = "loop" /\ f_i <= NumChunks
  /\ f_i' = f_i + 1
  /\ UNCHANGED << f_pc, f_last_job_map, transitions, job_flows >>
  /\ UNCHANGED << turnoverVars, tableVars, cacheVars, tenureVars,
                  countVars, buildVars, call >>

FlowsChunk ==
  /\ f_pc = "loop" /\ f_i <= NumChunks
  /\ \E raw \in ChunkFrames(f_i) :
       LET df  == DropNaJob(raw)
           dfp == AddPrev(df, f_last_job_map)
       IN  /\ f_i' = f_i + 1
           /\ IF df = {}
                THEN UNCHANGED << f_last_job_map, transitions >>
                ELSE /\ f_last_job_map' = DictUpdate(f_last_job_map, LastJobs(df))
                     /\ transitions' = transitions (+) BagOfFlows(ChangedRows(dfp))
  /\ UNCHANGED << f_pc, job_flows >>
  /\ UNCHANGED << turnoverVars, tableVars, cacheVars, tenureVars,
                  countVars, buildVars, call >>

FlowsLoopEnd ==
  /\ f_pc = "loop" /\ f_i > NumChunks
  /\ f_pc' = "aggregate"
  /\ UNCHANGED << f_i, f_last_job_map, transitions, job_flows >>
  /\ UNCHANGED << turnoverVars, tableVars, cacheVars, tenureVars,
                  countVars, buildVars, call >>

FlowsPreloaded ==
  /\ f_pc = "start"
  /\ \E all_df \in PreloadedFrames :
       transitions' = BagOfFlows(ChangedRowsPreloaded(AddPrevPreloaded(all_df)))
  /\ f_pc' = "aggregate"
  /\ UNCHANGED << f_i, f_last_job_map, job_flows >>
  /\ UNCHANGED << turnoverVars, tableVars, cacheVars, tenureVars,
                  countVars, buildVars, call >>

\* An empty frame when there is no transition, else the grouped counts.
FlowsAggregate ==
  /\ f_pc = "aggregate"
  /\ job_flows' = IF transitions = EmptyBag THEN {} ELSE GroupSize(transitions)
  /\ f_pc' = "done"
  /\ UNCHANGED << f_i, f_last_job_map, transitions >>
  /\ UNCHANGED << turnoverVars, tableVars, cacheVars, tenureVars,
                  countVars, buildVars, call >>

\* ------------------------------------------- the inputs of the aggregation
\* Employers.csv: employer 3 offers no job of Jobs.csv.
Employers == {1, 2, 3}

\* The frames _process_employer_meta can return; a building per employer.
MetaFrames ==
  SUBSET { [ employerId |-> e, buildingId |-> 10 * e ] : e \in Employers }

\* The months the events of a build fall into.
EventMonths == {0, 1}

\* At most MaxTransitions classified changes stand behind the events list
\* when the aggregation starts.
MaxTransitions == 1

\* The rows _process_employee_counts can return: one per (date, employerId).
\* Both days lie in month 0; employer 1 is counted on both, employer 2 on
\* the second.
CountRecords ==
  { [ date |-> k[1], month |-> k[1] \div 2, employerId |-> k[2],
      employeeCount |-> c ]
      : k \in { << 0, 1 >>, << 1, 1 >>, << 1, 2 >> }, c \in {0, 2} }

CountFrames ==
  { df \in SUBSET CountRecords :
      \A x, y \in df :
        (x.date = y.date /\ x.employerId = y.employerId) => x = y }

\* The events lists the loops can leave behind: the events of at most
\* MaxTransitions changed rows.
RECURSIVE EventBagsUpTo(_)
EventBagsUpTo(n) ==
  IF n = 0 THEN { EmptyBag }
  ELSE LET S == EventBagsUpTo(n - 1)
           emps == {None, 1, 2}
       IN  S \cup { b (+) SeqToBag(Classify(m, p, c)) :
                      b \in S, m \in EventMonths, p \in emps, c \in emps }

EventBags == EventBagsUpTo(MaxTransitions)

\* ------------------------------------- _process_turnover, the aggregation
\* A float, held as an exact fraction; the fraction 0/0 stands for NaN.
Float(n, d) == [ num |-> n, den |-> d ]

NaNFloat == Float(0, 0)

ZeroFloat == Float(0, 1)

\* A faulty sum: an event the list holds several times is added once.
RECURSIVE SumColOnce(_, _, _)
SumColOnce(S, bag, col) ==
  IF S = {} THEN 0
  ELSE LET e == CHOOSE x \in S : TRUE
       IN  e[col] + SumColOnce(S \ {e}, bag, col)

\* The sum of a column over the events S of a group.
RECURSIVE SumCol(_, _, _)
SumCol(S, bag, col) ==
  IF S = {} THEN 0
  ELSE LET e == CHOOSE x \in S : TRUE
       IN  e[col] * CopiesIn(e, bag) + SumCol(S \ {e}, bag, col)

\* evdf.groupby(['month', 'employerId']).sum().reset_index()
GroupSum(bag) ==
  LET keys == { << e.month, e.employerId >> : e \in BagToSet(bag) }
      grp(k) == { e \in BagToSet(bag) : e.month = k[1] /\ e.employerId = k[2] }
  IN  { [ month |-> k[1], employerId |-> k[2],
          hires    |-> SumCol(grp(k), bag, "hires"),
          quits    |-> SumCol(grp(k), bag, "quits"),
          switches |-> SumCol(grp(k), bag, "switches") ] : k \in keys }

RECURSIVE SumCount(_)
SumCount(rows) ==
  IF rows = {} THEN 0
  ELSE LET r == CHOOSE x \in rows : TRUE
       IN  r.employeeCount + SumCount(rows \ {r})

\* employee_counts_df.groupby(['month', 'employerId'])['employeeCount'].mean()
AvgEmp(df) ==
  LET keys == { << r.month, r.employerId >> : r \in df }
      grp(k) == { r \in df : r.month = k[1] /\ r.employerId = k[2] }
  IN  [ k \in keys |-> Float(SumCount(grp(k)), Cardinality(grp(k))) ]

\* pd.merge(grouped, avg_emp, how='left'), or a NaN column when the counts
\* frame is empty.
MergeAvg(grouped, df) ==
  LET avg_emp == AvgEmp(df)
  IN  { [ month |-> g.month, employerId |-> g.employerId,
          hires |-> g.hires, quits |-> g.quits,
          avgEmployeeCount |->
            IF df # {} /\ << g.month, g.employerId >> \in DOMAIN avg_emp
              THEN avg_emp[<< g.month, g.employerId >>]
              ELSE NaNFloat ] : g \in grouped }

\* A faulty rate: the division is made whatever the denominator.
CalcTurnoverUnguarded(row) ==
  [ num |-> (row.hires + row.quits) * row.avgEmployeeCount.den,
    den |-> 2 * row.avgEmployeeCount.num ]

\* (hires + quits) / 2.0 / denom, and 0.0 for a NaN or zero denominator.
CalcTurnover(row) ==
  LET denom == row.avgEmployeeCount
  IN  IF denom = NaNFloat \/ denom.num = 0
        THEN ZeroFloat
        ELSE Float((row.hires + row.quits) * denom.den, 2 * denom.num)

TurnoverOut(merged) ==
  { [ month |-> r.month, employerId |-> r.employerId,
      hires |-> r.hires, quits |-> r.quits,
      net_change |-> r.hires - r.quits,
      turnoverRate |-> CalcTurnover(r) ] : r \in merged }

\* A file of the processed directory.
NoFile == [ exists |-> FALSE, rows |-> {} ]

CsvFile(df) == [ exists |-> TRUE, rows |-> df ]

\* The end of _process_turnover on either path: an empty frame when there
\* is no event, else the grouped events with their rates; the frame is
\* written to turnover.csv and returned.
TurnoverAggregate ==
  /\ b_pc = "turnover" /\ t_pc = "aggregate"
  /\ LET out == IF events = EmptyBag THEN {}
                ELSE TurnoverOut(MergeAvg(GroupSum(events), emp_counts))
     IN  /\ turnover' = out
         /\ turnover_csv' = CsvFile(out)
  /\ t_pc' = "done"
  /\ b_pc' = "save"
  /\ UNCHANGED << t_i, last_job_map, events, processed, appended, hist >>
  /\ UNCHANGED << meta, emp_counts, employer_meta_csv, unified_pkl, response >>
  /\ UNCHANGED << flowVars, cacheVars, tenureVars, countVars, buildVars, call >>

\* The dictionary `unified` of lines 670-676.
Unified(m, c, t, f, n) ==
  [ employer_meta |-> m, employee_counts |-> c, turnover |-> t,
    job_flows |-> f, tenure |-> n ]

\* _save_unified_employer_dataset(unified)
SaveUnified ==
  /\ b_pc = "save"
  /\ unified_pkl' =
       [ state |-> "ok",
         dataset |-> Unified(meta, emp_counts, turnover, job_flows, tenure) ]
  /\ b_pc' = "done"
  /\ UNCHANGED << meta, emp_counts, turnover, employer_meta_csv, turnover_csv,
                  response >>
  /\ UNCHANGED << turnoverVars, flowVars, cacheVars, tenureVars,
                  countVars, buildVars, call >>

\* -------------------------------------------------------- _process_tenure
\* The pass over the log files keeps no order among them: a file may hold
\* rows older than those of a file read before it.
TenureTimestamps == 1 .. 4

TenureJobIds == {1, 4}

TenureRecords ==
  [ timestamp : TenureTimestamps,
    participantId : Participants,
    jobId : TenureJobIds \cup {NaN} ]

\* What read_csv can return for one file during the tenure pass.
TenureFrames == FramesUpTo(TenureRecords, MaxRecs)

\* Two sampling instants make a day.
TicksPerDay == 2

MinOf(S) == CHOOSE x \in S : \A y \in S : x <= y

MaxOf(S) == CHOOSE x \in S : \A y \in S : y <= x

\* df.groupby(['participantId', 'jobId'])['timestamp'].agg(['min', 'max'])
GroupMinMax(df) ==
  LET keys == { << r.participantId, r.jobId >> : r \in df }
      ts(k) == { r.timestamp : r \in { q \in df : q.participantId = k[1]
                                                   /\ q.jobId = k[2] } }
  IN  [ k \in keys |-> << MinOf(ts(k)), MaxOf(ts(k)) >> ]

\* A faulty merge: the interval of the file just read replaces the tracked
\* one.
OverwriteInterval(cur, ts_min, ts_max) == << ts_min, ts_max >>

\* A faulty merge: the start first seen is kept, only the end moves.
ExtendEndOnly(cur, ts_min, ts_max) ==
  << cur[1], IF ts_max > cur[2] THEN ts_max ELSE cur[2] >>

\* The update of an entry the map already holds.
MergeInterval(cur, ts_min, ts_max) ==
  << IF ts_min < cur[1] THEN ts_min ELSE cur[1],
     IF ts_max > cur[2] THEN ts_max ELSE cur[2] >>

\* The loop over grp.iterrows(): merge when the key is known, else insert.
MergeChunk(map, grp) ==
  [ k \in (DOMAIN map) \cup (DOMAIN grp) |->
      IF k \in DOMAIN grp
        THEN IF k \in DOMAIN map
               THEN MergeInterval(map[k], grp[k][1], grp[k][2])
               ELSE grp[k]
        ELSE map[k] ]

\* (max - min).dt.days: the whole days of the difference.
TenureDays(tmin, tmax) == (tmax - tmin) \div TicksPerDay

\* The frame grp: one row per pair, tenure_days and employerId added, the
\* rows whose jobId has no Jobs.csv row dropped.
TenureGrp(map) ==
  { r \in { [ participantId |-> k[1], jobId |-> k[2],
              min |-> map[k][1], max |-> map[k][2],
              tenure_days |-> TenureDays(map[k][1], map[k][2]),
              employerId |-> SeriesMap(job_to_employer, k[2]) ]
            : k \in DOMAIN map } : r.employerId # NaN }

RECURSIVE SortedDays(_)
SortedDays(grp) ==
  IF grp = {} THEN << >>
  ELSE LET r == CHOOSE x \in grp : \A y \in grp : x.tenure_days <= y.tenure_days
       IN  << r.tenure_days >> \o SortedDays(grp \ {r})

RECURSIVE SumSeq(_)
SumSeq(s) == IF s = << >> THEN 0 ELSE Head(s) + SumSeq(Tail(s))

Median(s) ==
  LET n == Len(s)
  IN  IF n % 2 = 1 THEN Float(s[(n + 1) \div 2], 1)
      ELSE Float(s[n \div 2] + s[n \div 2 + 1], 2)

\* grp.groupby('employerId')['tenure_days'].agg(['median','mean','min','max'])
TenureStats(grp) ==
  { LET s == SortedDays({ r \in grp : r.employerId = e })
    IN  [ employerId |-> e,
          medianTenure |-> Median(s),
          avgTenure |-> Float(SumSeq(s), Len(s)),
          minTenure |-> s[1],
          maxTenure |-> s[Len(s)] ]
    : e \in { r.employerId : r \in grp } }

\* The rows of a frame that carry a jobId, as (participantId, jobId, timestamp).
Sightings(df) ==
  { [ participantId |-> r.participantId, jobId |-> r.jobId,
      timestamp |-> r.timestamp ] : r \in DropNaJob(df) }

TenureStartStreaming ==
  /\ n_pc = "start"
  /\ n_pc' = "loop"
  /\ UNCHANGED << n_i, tenure_map, seen, tenure_grp, tenure >>
  /\ UNCHANGED << turnoverVars, flowVars, tableVars, cacheVars,
                  countVars, buildVars, call >>

TenureSkipMissing ==
  /\ n_pc = "loop" /\ n_i <= NumChunks
  /\ n_i' = n_i + 1
  /\ UNCHANGED << n_pc, tenure_map, seen, tenure_grp, tenure >>
  /\ UNCHANGED << turnoverVars, flowVars, tableVars, cacheVars,
                  countVars, buildVars, call >>

TenureChunk ==
  /\ n_pc = "loop" /\ n_i <= NumChunks
  /\ \E raw \in TenureFrames :
       LET df == DropNaJob(raw)
       IN  /\ n_i' = n_i + 1
           /\ seen' = seen \cup Sightings(raw)
           /\ IF df = {}
                THEN UNCHANGED tenure_map
                ELSE tenure_map' = MergeChunk(tenure_map, GroupMinMax(df))
  /\ UNCHANGED << n_pc, tenure_grp, tenure >>
  /\ UNCHANGED << turnoverVars, flowVars, tableVars, cacheVars,
                  countVars, buildVars, call >>

\* After the loop: an empty frame when the map is empty, else the frame grp.
TenureLoopEnd ==
  /\ n_pc = "loop" /\ n_i > NumChunks
  /\ IF tenure_map = << >>
       THEN /\ n_pc' = "done"
            /\ tenure' = {}
            /\ UNCHANGED tenure_grp
       ELSE /\ n_pc' = "aggregate"
            /\ tenure_grp' = TenureGrp(tenure_map)
            /\ UNCHANGED tenure
  /\ UNCHANGED << n_i, tenure_map, seen >>
  /\ UNCHANGED << turnoverVars, flowVars, tableVars, cacheVars,
                  countVars, buildVars, call >>

TenurePreloaded ==
  /\ n_pc = "start"
  /\ \E all_df \in PreloadedFrames :
       /\ tenure_grp' = TenureGrp(GroupMinMax(all_df))
       /\ seen' = Sightings(all_df)
  /\ n_pc' = "aggregate"
  /\ UNCHANGED << n_i, tenure_map, tenure >>
  /\ UNCHANGED << turnoverVars, flowVars, tableVars, cacheVars,
                  countVars, buildVars, call >>

\* An empty frame when grp has no row, else the statistics per employer.
TenureAggregate ==
  /\ n_pc = "aggregate"
  /\ tenure' = IF tenure_grp = {} THEN {} ELSE TenureStats(tenure_grp)
  /\ n_pc' = "done"
  /\ UNCHANGED << n_i, tenure_map, seen, tenure_grp >>
  /\ UNCHANGED << turnoverVars, flowVars, tableVars, cacheVars,
                  countVars, buildVars, call >>

\* ----------------------------------------------- _process_employee_counts
\* ts.dt.floor('D'), ts.strftime('%Y-%m-%d'): the day a timestamp falls in.
\* Two sampling instants make a day, so that a day can lie across two files.
DayOf(ts) == ts \div TicksPerDay

\* day.dt.to_period('M'): the month a day falls in.
MonthOfDay(d) == d \div 2

\* dropna(jobId), map(job_to_employer), dropna(employerId), the day column.
WithEmployerDay(df) ==
  { r \in { [ day |-> DayOf(q.timestamp),
              employerId |-> SeriesMap(job_to_employer, q.jobId),
              participantId |-> q.participantId ] : q \in DropNaJob(df) }
      : r.employerId # NaN }

\* df.groupby(['day', 'employerId'])['participantId'].unique()
GroupUnique(df) ==
  { [ day |-> k[1], employerId |-> k[2],
      participantId |-> { r.participantId :
                            r \in { q \in df : q.day = k[1]
                                               /\ q.employerId = k[2] } } ]
      : k \in { << r.day, r.employerId >> : r \in df } }

\* pd.concat(rows, ignore_index=True): the rows of all aggregates, each under
\* its position in the list.
Concat(list) ==
  UNION { { [ idx |-> i, row |-> r ] : r \in list[i] } : i \in DOMAIN list }

RECURSIVE SumLengths(_)
SumLengths(series) ==
  IF series = {} THEN 0
  ELSE LET x == CHOOSE y \in series : TRUE
       IN  Cardinality(x.row.participantId) + SumLengths(series \ {x})

\* A faulty union: the lengths of the arrays are added up.
CountSumLengths(series) == SumLengths(series)

\* count_unique_union: the size of the union of the arrays of a group.
CountUniqueUnion(series) ==
  IF Cardinality(series) = 0 THEN 0
  ELSE IF Cardinality(series) = 1
         THEN Cardinality((CHOOSE x \in series : TRUE).row.participantId)
         ELSE Cardinality(UNION { x.row.participantId : x \in series })

\* combined.groupby(['day', 'employerId'])['participantId']
\*   .apply(count_unique_union), then the date and month columns.
FinalAgg(combined) ==
  { [ date |-> k[1], month |-> MonthOfDay(k[1]), employerId |-> k[2],
      employeeCount |->
        CountUniqueUnion({ x \in combined : x.row.day = k[1]
                                             /\ x.row.employerId = k[2] }) ]
      : k \in { << x.row.day, x.row.employerId >> : x \in combined } }

\* The columns build_employer_datasets adds to the preloaded frame.
WithColumns(all_df) ==
  { [ timestamp |-> r.timestamp, participantId |-> r.participantId,
      jobId |-> r.jobId,
      employerId |-> SeriesMap(job_to_employer, r.jobId),
      date |-> DayOf(r.timestamp), month |-> MonthOf(r.timestamp) ]
      : r \in DropNaJob(all_df) }

\* combined.groupby(['date', 'month', 'employerId'])['participantId'].nunique()
GroupNunique(combined) ==
  { [ date |-> k[1], month |-> k[2], employerId |-> k[3],
      employeeCount |->
        Cardinality({ r.participantId :
                        r \in { q \in combined : q.date = k[1]
                                                 /\ q.month = k[2]
                                                 /\ q.employerId = k[3] } }) ]
      : k \in { << r.date, r.month, r.employerId >> : r \in combined } }

\* The sightings of a frame: who was seen with a job at which employer on
\* which day.
Observed(df) ==
  { [ date |-> DayOf(r.timestamp),
      employerId |-> (CHOOSE j \in JobsCsv : j.jobId = r.jobId).employerId,
      participantId |-> r.participantId ]
      : r \in { q \in df : \E j \in JobsCsv : j.jobId = q.jobId } }

CountsStartStreaming ==
  /\ c_pc = "start"
  /\ c_pc' = "loop"
  /\ UNCHANGED << c_i, c_rows, observed >>
  /\ UNCHANGED << turnoverVars, flowVars, tableVars, cacheVars,
                  tenureVars, buildVars, call >>

CountsSkipMissing ==
  /\ c_pc = "loop" /\ c_i <= NumChunks
  /\ c_i' = c_i + 1
  /\ UNCHANGED << c_pc, c_rows, observed >>
  /\ UNCHANGED << turnoverVars, flowVars, tableVars, cacheVars,
                  tenureVars, buildVars, call >>

CountsChunk ==
  /\ c_pc = "loop" /\ c_i <= NumChunks
  /\ \E raw \in ChunkFrames(c_i) :
       /\ c_rows' = Append(c_rows, GroupUnique(WithEmployerDay(raw)))
       /\ observed' = observed \cup Observed(raw)
  /\ c_i' = c_i + 1
  /\ UNCHANGED c_pc
  /\ UNCHANGED << turnoverVars, flowVars, tableVars, cacheVars,
                  tenureVars, buildVars, call >>

\* After the loop: an empty frame when no file was read, else the final
\* aggregation; the frame is returned.
CountsLoopEnd ==
  /\ c_pc = "loop" /\ c_i > NumChunks
  /\ emp_counts' = IF Len(c_rows) = 0 THEN {} ELSE FinalAgg(Concat(c_rows))
  /\ c_pc' = "done"
  /\ UNCHANGED << c_i, c_rows, observed >>
  /\ UNCHANGED << b_pc, meta, turnover, employer_meta_csv, turnover_csv,
                  unified_pkl, response >>
  /\ UNCHANGED << turnoverVars, flowVars, cacheVars, tenureVars, buildVars, call >>

CountsPreloaded ==
  /\ c_pc = "start"
  /\ \E all_df \in PreloadedFrames :
       /\ emp_counts' =
            GroupNunique({ r \in WithColumns(all_df) : r.employerId # NaN })
       /\ observed' = Observed(all_df)
  /\ c_pc' = "done"
  /\ UNCHANGED << c_i, c_rows >>
  /\ UNCHANGED << b_pc, meta, turnover, employer_meta_csv, turnover_csv,
                  unified_pkl, response >>
  /\ UNCHANGED << turnoverVars, flowVars, cacheVars, tenureVars, buildVars, call >>

\* ------------------------------------------------------ the turnover reads
\* The module has no unpickled dataset when the file is absent or fails to
\* load.
\* A faulty load: the bundle comes back without its turnover rows.
CachedDatasetNoTurnover ==
  IF unified_pkl.state = "ok"
    THEN << [ unified_pkl.dataset EXCEPT !.turnover = {} ] >>
    ELSE << >>

CachedDataset ==
  IF unified_pkl.state = "ok" THEN << unified_pkl.dataset >> ELSE << >>

\* _load_turnover_df: the pickle, else turnover.csv, else an empty frame.
LoadTurnoverDf ==
  IF CachedDataset # << >> THEN CachedDataset[1].turnover
  ELSE IF turnover_csv.exists THEN turnover_csv.rows
  ELSE {}

\* _load_employer_meta_df: the pickle, else employer_meta.csv, else empty.
LoadEmployerMetaDf ==
  IF CachedDataset # << >> THEN CachedDataset[1].employer_meta
  ELSE IF employer_meta_csv.exists THEN employer_meta_csv.rows
  ELSE {}

MonthRows(df, month) == { r \in df : r.month = month }

ZeroRow(e, month) ==
  [ employerId |-> e, month |-> month, hires |-> 0, quits |-> 0,
    net_change |-> 0, turnoverRate |-> ZeroFloat ]

\* A faulty merge: an inner join, which drops the employers without a row.
InnerMergeBase(employer_ids, month, month_rows) ==
  { r \in month_rows : r.employerId \in employer_ids }

\* pd.merge(base, month_rows, on=['month', 'employerId'], how='left')
LeftMergeBase(employer_ids, month, month_rows) ==
  UNION { LET hit == { r \in month_rows : r.employerId = e }
          IN  IF hit # {} THEN hit
              ELSE { [ employerId |-> e, month |-> month, hires |-> NaN,
                       quits |-> NaN, net_change |-> NaN,
                       turnoverRate |-> NaNFloat ] }
          : e \in employer_ids }

\* A faulty fill: every value column is set to zero.
ZeroAllRow(r) ==
  [ r EXCEPT !.hires = 0, !.quits = 0, !.net_change = 0,
             !.turnoverRate = [ num |-> 0, den |-> 1 ] ]

\* to_numeric(...).fillna(0) on the four value columns of one row.
FillNaRow(r) ==
  [ r EXCEPT !.hires = IF @ = NaN THEN 0 ELSE @,
             !.quits = IF @ = NaN THEN 0 ELSE @,
             !.net_change = IF @ = NaN THEN 0 ELSE @,
             !.turnoverRate = IF @ = NaNFloat THEN ZeroFloat ELSE @ ]

\* A faulty fill: an empty employer universe is merged against like any
\* other.
FillAgainstAnyUniverse(df, employer_meta, month) ==
  LET employer_ids == { r.employerId : r \in employer_meta } \ {NaN}
  IN  IF df = {} THEN { ZeroRow(e, month) : e \in employer_ids }
      ELSE { FillNaRow(r) :
               r \in LeftMergeBase(employer_ids, month, MonthRows(df, month)) }

_fill_missing_turnover_month(df, employer_meta, month) ==
  IF employer_meta = {} THEN MonthRows(df, month)
  ELSE LET employer_ids == { r.employerId : r \in employer_meta } \ {NaN}
       IN  IF df = {} THEN { ZeroRow(e, month) : e \in employer_ids }
           ELSE { FillNaRow(r) :
                    r \in LeftMergeBase(employer_ids, month, MonthRows(df, month)) }

\* pd.merge(turnover, meta, on='employerId', how='left') and the selection
\* of the returned columns; buildingId stands for the columns of meta.
MergeMeta(df, employer_meta) ==
  UNION { LET hit == { m \in employer_meta : m.employerId = r.employerId }
              row(b) == [ month |-> r.month, employerId |-> r.employerId,
                          buildingId |-> b, turnoverRate |-> r.turnoverRate,
                          hires |-> r.hires, quits |-> r.quits ]
          IN  IF hit # {} THEN { row(m.buildingId) : m \in hit }
              ELSE { row(NaN) }
          : r \in df }

\* The month arguments of a read; None is the omitted argument.
ReadMonths == {0, None}

NoResponse ==
  [ endpoint |-> "none", month |-> None, fill_missing |-> FALSE,
    df |-> {}, meta |-> {}, data |-> {}, info |-> << >> ]

get_geographic_turnover_data ==
  \E month \in ReadMonths, fill_missing \in BOOLEAN :
    LET employer_meta == LoadEmployerMetaDf
        df == LoadTurnoverDf
        scoped == IF fill_missing /\ month # None
                    THEN _fill_missing_turnover_month(df, employer_meta, month)
                  ELSE IF month # None THEN MonthRows(df, month)
                  ELSE df
    IN  /\ response' = [ endpoint |-> "geographic", month |-> month,
                         fill_missing |-> fill_missing, df |-> df,
                         meta |-> employer_meta,
                         data |-> MergeMeta(scoped, employer_meta),
                         info |-> << >> ]
        /\ UNCHANGED << b_pc, meta, emp_counts, turnover, employer_meta_csv,
                        turnover_csv, unified_pkl >>
        /\ UNCHANGED << turnoverVars, flowVars, cacheVars,
                        tenureVars, countVars, buildVars, call >>

\* A faulty read: the filled rows are stored as the rows of their month,
\* in turnover.csv and in the bundle.
HeatmapStoreFilled ==
  \E month \in ReadMonths \ {None} :
    LET df == LoadTurnoverDf
        employer_meta == LoadEmployerMetaDf
        filled == _fill_missing_turnover_month(df, employer_meta, month)
        stored == { r \in df : r.month # month } \cup filled
    IN  /\ response' = [ endpoint |-> "heatmap", month |-> month,
                         fill_missing |-> TRUE, df |-> df,
                         meta |-> employer_meta, data |-> filled,
                         info |-> << >> ]
        /\ turnover_csv' = CsvFile(stored)
        /\ unified_pkl' = IF unified_pkl.state = "ok"
                            THEN [ unified_pkl EXCEPT !.dataset.turnover = stored ]
                            ELSE unified_pkl
        /\ UNCHANGED << b_pc, meta, emp_counts, turnover, employer_meta_csv >>
        /\ UNCHANGED << turnoverVars, flowVars, cacheVars,
                        tenureVars, countVars, buildVars, call >>

get_turnover_heatmap_data ==
  \E month \in ReadMonths, fill_missing \in BOOLEAN :
    LET df == LoadTurnoverDf
        employer_meta == LoadEmployerMetaDf
        filled == _fill_missing_turnover_month(df, employer_meta, month)
    IN  /\ response' =
              IF fill_missing /\ month # None
                THEN [ endpoint |-> "heatmap", month |-> month,
                       fill_missing |-> fill_missing, df |-> df,
                       meta |-> employer_meta, data |-> filled,
                       info |-> << [ month |-> month, filledMissing |-> TRUE,
                                     totalEmployers |->
                                       Cardinality({ m.employerId : m \in employer_meta }),
                                     employersWithEvents |->
                                       Cardinality({ r \in filled :
                                                       r.hires + r.quits > 0 }) ] >> ]
                ELSE [ endpoint |-> "heatmap", month |-> month,
                       fill_missing |-> fill_missing, df |-> df,
                       meta |-> employer_meta,
                       data |-> IF month # None THEN MonthRows(df, month) ELSE df,
                       info |-> << >> ]
        /\ UNCHANGED << b_pc, meta, emp_counts, turnover, employer_meta_csv,
                        turnover_csv, unified_pkl >>
        /\ UNCHANGED << turnoverVars, flowVars, cacheVars,
                        tenureVars, countVars, buildVars, call >>

\* ------------------------------------------------ build_employer_datasets
\* At most MaxBuilds calls of build_employer_datasets are made; nothing in
\* the code keeps two of them from running at the same time.
MaxBuilds == 2

Builds == 1 .. MaxBuilds

\* The raw directory: ParticipantStatusLogs<i>.csv is missing, or holds one
\* row of participant 1 at the first instant of its slice.
SnapshotJobIds == {1, 2, 4}

SnapshotFiles(i) ==
  { NoFile }
    \cup { CsvFile({ [ timestamp |-> 2 * i - 1, participantId |-> 1,
                       jobId |-> j ] }) : j \in SnapshotJobIds }

Snapshots ==
  { f \in [ 1..NumChunks -> UNION { SnapshotFiles(i) : i \in 1..NumChunks } ] :
      \A i \in 1..NumChunks : f[i] \in SnapshotFiles(i) }

\* The sample rates a deployment runs its builds with.
SampleRates == {1, 2}

\* The position of a row in its file: the files are written in time order.
Position(df, r) ==
  Cardinality({ q \in df : \/ q.timestamp < r.timestamp
                           \/ /\ q.timestamp = r.timestamp
                              /\ q.participantId < r.participantId })

\* df.iloc[::sample_rate, :]
Sample(df, rate) == { r \in df : Position(df, r) % rate = 0 }

\* A faulty reader: the first missing file ends the iteration.
RECURSIVE IterChunksUntilMissing(_, _, _)
IterChunksUntilMissing(files, i, rate) ==
  IF i > NumChunks \/ ~ files[i].exists THEN << >>
  ELSE << [ id |-> i,
            df |-> IF rate > 1 THEN Sample(files[i].rows, rate)
                   ELSE files[i].rows ] >>
         \o IterChunksUntilMissing(files, i + 1, rate)

\* _iter_participant_status_logs from file i on: what it yields, each
\* frame with the id of its file.
RECURSIVE IterChunks(_, _, _)
IterChunks(files, i, rate) ==
  IF i > NumChunks THEN << >>
  ELSE ( IF files[i].exists
           THEN << [ id |-> i,
                     df |-> IF rate > 1 THEN Sample(files[i].rows, rate)
                            ELSE files[i].rows ] >>
           ELSE << >> ) \o IterChunks(files, i + 1, rate)

\* _iter_participant_status_logs: the frames of the files that exist, in
\* the order of their ids, sampled.
IterLogs(files, i, rate) ==
  LET ys == IterChunks(files, i, rate)
  IN  [ k \in DOMAIN ys |-> ys[k].df ]

\* _process_employer_meta: one row per employer of Employers.csv.
ProcessEmployerMeta ==
  { [ employerId |-> e, buildingId |-> 10 * e ] : e \in Employers }

\* Step 2: the frames of all files, the rows with a blank jobId dropped,
\* concatenated.  No frame at all gives an empty frame.
FullDf(frames) == DropNaJob(UNION { frames[k] : k \in DOMAIN frames })

\* all_logs_df: << >> stands for None, << df >> for a frame.
ProcessEmployeeCounts(frames, all_logs_df) ==
  IF all_logs_df = << >>
    THEN IF Len(frames) = 0 THEN {}
         ELSE FinalAgg(Concat([ k \in DOMAIN frames |->
                                  GroupUnique(WithEmployerDay(frames[k])) ]))
    ELSE GroupNunique({ r \in WithColumns(all_logs_df[1]) :
                          r.employerId # NaN })

\* The loop of _process_turnover over the frames from the k-th on.
RECURSIVE StreamEvents(_, _, _)
StreamEvents(frames, k, ljm) ==
  IF k > Len(frames) THEN EmptyBag
  ELSE LET df  == FillUnemployed(frames[k])
           dfp == AddPrev(df, ljm)
       IN  IF df = {} THEN StreamEvents(frames, k + 1, ljm)
           ELSE BagOfRows(ChangedRows(dfp))
                  (+) StreamEvents(frames, k + 1, DictUpdate(ljm, LastJobs(df)))

ProcessTurnover(frames, all_logs_df, employee_counts_df) ==
  LET evs == IF all_logs_df = << >> THEN StreamEvents(frames, 1, << >>)
             ELSE BagOfRowsPreloaded(
                    ChangedRowsPreloaded(AddPrevPreloaded(all_logs_df[1])))
  IN  IF evs = EmptyBag THEN {}
      ELSE TurnoverOut(MergeAvg(GroupSum(evs), employee_counts_df))

\* The loop of _process_job_flows over the frames from the k-th on.
RECURSIVE StreamFlows(_, _, _)
StreamFlows(frames, k, ljm) ==
  IF k > Len(frames) THEN EmptyBag
  ELSE LET df  == DropNaJob(frames[k])
           dfp == AddPrev(df, ljm)
       IN  IF df = {} THEN StreamFlows(frames, k + 1, ljm)
           ELSE BagOfFlows(ChangedRows(dfp))
                  (+) StreamFlows(frames, k + 1, DictUpdate(ljm, LastJobs(df)))

ProcessJobFlows(frames, all_logs_df) ==
  LET trs == IF all_logs_df = << >> THEN StreamFlows(frames, 1, << >>)
             ELSE BagOfFlows(
                    ChangedRowsPreloaded(AddPrevPreloaded(all_logs_df[1])))
  IN  IF trs = EmptyBag THEN {} ELSE GroupSize(trs)

\* The loop of _process_tenure over the frames from the k-th on.
RECURSIVE StreamTenure(_, _, _)
StreamTenure(frames, k, map) ==
  IF k > Len(frames) THEN map
  ELSE LET df == DropNaJob(frames[k])
       IN  IF df = {} THEN StreamTenure(frames, k + 1, map)
           ELSE StreamTenure(frames, k + 1, MergeChunk(map, GroupMinMax(df)))

ProcessTenure(frames, all_logs_df) ==
  LET map == StreamTenure(frames, 1, << >>)
      grp == IF all_logs_df = << >>
               THEN IF DOMAIN map = {} THEN {} ELSE TenureGrp(map)
               ELSE TenureGrp(GroupMinMax(all_logs_df[1]))
  IN  IF grp = {} THEN {} ELSE TenureStats(grp)

\* get_city_metrics, its inputs: the two tables of the bundle, else the two
\* CSV files when both exist, else nothing (the read returns []).
LoadCityFrames ==
  IF CachedDataset # << >>
    THEN << CachedDataset[1].employee_counts, CachedDataset[1].turnover >>
  ELSE IF employee_counts_csv.exists /\ turnover_csv.exists
    THEN << employee_counts_csv.rows, turnover_csv.rows >>
  ELSE << >>

\* emp_df.groupby(['date', 'month'])['employeeCount'].sum()
DailyTotal(emp_df) ==
  { [ date |-> k[1], month |-> k[2],
      totalDailyEmployment |->
        SumCount({ r \in emp_df : r.date = k[1] /\ r.month = k[2] }) ]
      : k \in { << r.date, r.month >> : r \in emp_df } }

RECURSIVE SumField(_, _)
SumField(rows, col) ==
  IF rows = {} THEN 0
  ELSE LET r == CHOOSE x \in rows : TRUE
       IN  r[col] + SumField(rows \ {r}, col)

\* daily_total.groupby('month')['totalDailyEmployment'].mean()
MonthlyEmp(daily_total) ==
  [ m \in { d.month : d \in daily_total } |->
      LET days == { d \in daily_total : d.month = m }
      IN  Float(SumField(days, "totalDailyEmployment"), Cardinality(days)) ]

\* turnover_df.groupby('month')[['hires', 'quits']].sum(), renamed.
MonthlyTurnover(turnover_df) ==
  [ m \in { t.month : t \in turnover_df } |->
      LET grp == { t \in turnover_df : t.month = m }
      IN  [ totalHires |-> SumField(grp, "hires"),
            totalQuits |-> SumField(grp, "quits") ] ]

\* A faulty merge: how='left', the months of the employee counts only.
MergeCityLeft(monthly_emp, monthly_turnover) ==
  { [ month |-> m,
      avgTotalEmployment |-> monthly_emp[m],
      totalHires |-> IF m \in DOMAIN monthly_turnover
                       THEN monthly_turnover[m].totalHires ELSE 0,
      totalQuits |-> IF m \in DOMAIN monthly_turnover
                       THEN monthly_turnover[m].totalQuits ELSE 0 ]
      : m \in DOMAIN monthly_emp }

\* pd.merge(monthly_emp, monthly_turnover, on='month', how='outer').fillna(0)
MergeCity(monthly_emp, monthly_turnover) ==
  { [ month |-> m,
      avgTotalEmployment |-> IF m \in DOMAIN monthly_emp
                               THEN monthly_emp[m] ELSE ZeroFloat,
      totalHires |-> IF m \in DOMAIN monthly_turnover
                       THEN monthly_turnover[m].totalHires ELSE 0,
      totalQuits |-> IF m \in DOMAIN monthly_turnover
                       THEN monthly_turnover[m].totalQuits ELSE 0 ]
      : m \in (DOMAIN monthly_emp) \cup (DOMAIN monthly_turnover) }

\* _calc_rate
CalcRate(row) ==
  LET denom == row.avgTotalEmployment
  IN  IF denom.num = 0 THEN ZeroFloat
      ELSE Float((row.totalHires + row.totalQuits) * denom.den, denom.num)

\* merged.sort_values('month').to_dict('records')
RECURSIVE SortByMonth(_)
SortByMonth(rows) ==
  IF rows = {} THEN << >>
  ELSE LET r == CHOOSE x \in rows : \A y \in rows : x.month <= y.month
       IN  << r >> \o SortByMonth(rows \ {r})

CityMetrics(emp_df, turnover_df) ==
  LET merged == MergeCity(MonthlyEmp(DailyTotal(emp_df)),
                          MonthlyTurnover(turnover_df))
  IN  SortByMonth({ [ month |-> r.month,
                      avgTotalEmployment |-> r.avgTotalEmployment,
                      totalHires |-> r.totalHires,
                      totalQuits |-> r.totalQuits,
                      cityTurnoverRate |-> CalcRate(r) ] : r \in merged })

\* get_city_metrics: [] when neither the bundle nor both CSV files can be
\* loaded.
get_city_metrics ==
  /\ call' = [ fn |-> "get_city_metrics", preloaded |-> FALSE,
               input |-> LoadCityFrames,
               value |-> IF LoadCityFrames = << >> THEN << >>
                         ELSE CityMetrics(LoadCityFrames[1], LoadCityFrames[2]) ]
  /\ UNCHANGED << turnoverVars, flowVars, tableVars, cacheVars, tenureVars,
                  countVars, buildVars >>

\* What the reads load in the present state of the processed directory.
ReadTables ==
  [ turnover |-> LoadTurnoverDf,
    employer_meta |-> LoadEmployerMetaDf,
    city |-> LoadCityFrames ]

\* A call that has not been made yet.
IdleBuild ==
  [ pc |-> "idle", force_rebuild |-> FALSE, meta |-> {}, full_df |-> << >>,
    emp_counts |-> {}, turnover |-> {}, flows |-> {}, tenure |-> {},
    ret |-> << >>, before |-> << >> ]

\* The files the steps of a streaming build read again, each on its own.
ReadsLogs(b) == builds[b].full_df = << >>

\* The frames a step of build b gets from the reader.
FramesOf(b) == IterLogs(logs, 1, IF ReadsLogs(b) THEN 1 ELSE sample_rate)

\* A faulty start: the bundle is returned whenever it loads, forced or not.
BuildStartIgnoringForce(b) ==
  /\ builds[b].pc = "idle"
  /\ \A a \in Builds : a < b => builds[a].pc # "idle"
  /\ \E force \in BOOLEAN :
       builds' = [ builds EXCEPT ![b] =
         IF CachedDataset # << >>
           THEN [ @ EXCEPT !.pc = "cached", !.force_rebuild = force,
                           !.ret = << CachedDataset[1] >>,
                           !.before = << ReadTables >> ]
           ELSE [ @ EXCEPT !.pc = "meta", !.force_rebuild = force,
                           !.before = << ReadTables >> ] ]
  /\ UNCHANGED << logs, sample_rate, employee_counts_csv, job_flows_csv,
                  tenure_csv, written >>
  /\ UNCHANGED << turnoverVars, flowVars, tableVars, cacheVars, tenureVars,
                  countVars, call >>

\* Lines 612-617: a call that is not forced returns the bundle when it
\* loads; otherwise the build begins.  Calls are numbered as they start.
BuildStart(b) ==
  /\ builds[b].pc = "idle"
  /\ \A a \in Builds : a < b => builds[a].pc # "idle"
  /\ \E force \in BOOLEAN :
       builds' = [ builds EXCEPT ![b] =
         IF ~ force /\ CachedDataset # << >>
           THEN [ @ EXCEPT !.pc = "cached", !.force_rebuild = force,
                           !.ret = << CachedDataset[1] >>,
                           !.before = << ReadTables >> ]
           ELSE [ @ EXCEPT !.pc = "meta", !.force_rebuild = force,
                           !.before = << ReadTables >> ] ]
  /\ UNCHANGED << logs, sample_rate, employee_counts_csv, job_flows_csv,
                  tenure_csv, written >>
  /\ UNCHANGED << turnoverVars, flowVars, tableVars, cacheVars, tenureVars,
                  countVars, call >>

\* Step 1: employer_meta.csv is written.
BuildMeta(b) ==
  /\ builds[b].pc = "meta"
  /\ builds' = [ builds EXCEPT ![b].meta = ProcessEmployerMeta,
                               ![b].pc = IF sample_rate > 1 THEN "preload"
                                         ELSE "counts" ]
  /\ employer_meta_csv' = CsvFile(ProcessEmployerMeta)
  /\ written' = [ written EXCEPT !.employer_meta = b ]
  /\ UNCHANGED << logs, sample_rate, employee_counts_csv, job_flows_csv,
                  tenure_csv >>
  /\ UNCHANGED << b_pc, meta, emp_counts, turnover, turnover_csv, unified_pkl,
                  response >>
  /\ UNCHANGED << turnoverVars, flowVars, cacheVars, tenureVars, countVars, call >>

\* Step 2 (sample_rate > 1): the files are read once; a file that cannot
\* be read or parsed raises, and the call ends there.
BuildPreload(b) ==
  /\ builds[b].pc = "preload"
  /\ \E readable \in BOOLEAN :
       builds' = [ builds EXCEPT ![b] =
         IF readable
           THEN [ @ EXCEPT !.pc = "counts",
                           !.full_df = << FullDf(IterLogs(logs, 1, sample_rate)) >> ]
           ELSE [ @ EXCEPT !.pc = "aborted" ] ]
  /\ UNCHANGED << logs, sample_rate, employee_counts_csv, job_flows_csv,
                  tenure_csv, written >>
  /\ UNCHANGED << turnoverVars, flowVars, tableVars, cacheVars, tenureVars,
                  countVars, call >>

\* Whether the reader gets through the files in a step: a streaming step
\* reads them and may hit one it cannot read; a preloaded step reads none.
Readable(b) == IF ReadsLogs(b) THEN BOOLEAN ELSE {TRUE}

\* Step 3: employee_counts.csv is written.
BuildCounts(b) ==
  /\ builds[b].pc = "counts"
  /\ \E readable \in Readable(b) :
       IF readable
         THEN LET out == ProcessEmployeeCounts(FramesOf(b), builds[b].full_df)
              IN  /\ builds' = [ builds EXCEPT ![b].emp_counts = out,
                                               ![b].pc = "turnover" ]
                  /\ employee_counts_csv' = CsvFile(out)
                  /\ written' = [ written EXCEPT !.employee_counts = b ]
         ELSE /\ builds' = [ builds EXCEPT ![b].pc = "aborted" ]
              /\ UNCHANGED << employee_counts_csv, written >>
  /\ UNCHANGED << logs, sample_rate, job_flows_csv, tenure_csv >>
  /\ UNCHANGED << turnoverVars, flowVars, tableVars, cacheVars, tenureVars,
                  countVars, call >>

\* Step 4: turnover.csv is written.
BuildTurnover(b) ==
  /\ builds[b].pc = "turnover"
  /\ \E readable \in Readable(b) :
       IF readable
         THEN LET out == ProcessTurnover(FramesOf(b), builds[b].full_df,
                                         builds[b].emp_counts)
              IN  /\ builds' = [ builds EXCEPT ![b].turnover = out,
                                               ![b].pc = "flows" ]
                  /\ turnover_csv' = CsvFile(out)
                  /\ written' = [ written EXCEPT !.turnover = b ]
         ELSE /\ builds' = [ builds EXCEPT ![b].pc = "aborted" ]
              /\ UNCHANGED << turnover_csv, written >>
  /\ UNCHANGED << logs, sample_rate, employee_counts_csv, job_flows_csv,
                  tenure_csv >>
  /\ UNCHANGED << b_pc, meta, emp_counts, turnover, employer_meta_csv,
                  unified_pkl, response >>
  /\ UNCHANGED << turnoverVars, flowVars, cacheVars, tenureVars, countVars, call >>

\* Step 5: job_flows.csv is written.
BuildFlows(b) ==
  /\ builds[b].pc = "flows"
  /\ \E readable \in Readable(b) :
       IF readable
         THEN LET out == ProcessJobFlows(FramesOf(b), builds[b].full_df)
              IN  /\ builds' = [ builds EXCEPT ![b].flows = out,
                                               ![b].pc = "tenure" ]
                  /\ job_flows_csv' = CsvFile(out)
                  /\ written' = [ written EXCEPT !.job_flows = b ]
         ELSE /\ builds' = [ builds EXCEPT ![b].pc = "aborted" ]
              /\ UNCHANGED << job_flows_csv, written >>
  /\ UNCHANGED << logs, sample_rate, employee_counts_csv, tenure_csv >>
  /\ UNCHANGED << turnoverVars, flowVars, tableVars, cacheVars, tenureVars,
                  countVars, call >>

\* Step 6: tenure.csv is written.
BuildTenure(b) ==
  /\ builds[b].pc = "tenure"
  /\ \E readable \in Readable(b) :
       IF readable
         THEN LET out == ProcessTenure(FramesOf(b), builds[b].full_df)
              IN  /\ builds' = [ builds EXCEPT ![b].tenure = out,
                                               ![b].pc = "save" ]
                  /\ tenure_csv' = CsvFile(out)
                  /\ written' = [ written EXCEPT !.tenure = b ]
         ELSE /\ builds' = [ builds EXCEPT ![b].pc = "aborted" ]
              /\ UNCHANGED << tenure_csv, written >>
  /\ UNCHANGED << logs, sample_rate, employee_counts_csv, job_flows_csv >>
  /\ UNCHANGED << turnoverVars, flowVars, tableVars, cacheVars, tenureVars,
                  countVars, call >>

\* open(UNIFIED_CACHE_FILE, "wb"): the file is truncated in place.
BuildOpenBundle(b) ==
  /\ builds[b].pc = "save"
  /\ builds' = [ builds EXCEPT ![b].pc = "dump" ]
  /\ unified_pkl' = [ state |-> "partial", dataset |-> << >> ]
  /\ written' = [ written EXCEPT !.unified = b ]
  /\ UNCHANGED << logs, sample_rate, employee_counts_csv, job_flows_csv,
                  tenure_csv >>
  /\ UNCHANGED << b_pc, meta, emp_counts, turnover, employer_meta_csv,
                  turnover_csv, response >>
  /\ UNCHANGED << turnoverVars, flowVars, cacheVars, tenureVars, countVars, call >>

\* pickle.dump(dataset_dict, f), the file closed, `unified` returned.
BuildDumpBundle(b) ==
  /\ builds[b].pc = "dump"
  /\ LET unified == Unified(builds[b].meta, builds[b].emp_counts,
                            builds[b].turnover, builds[b].flows,
                            builds[b].tenure)
     IN  /\ unified_pkl' = [ state |-> "ok", dataset |-> unified ]
         /\ builds' = [ builds EXCEPT ![b].pc = "done",
                                      ![b].ret = << unified >> ]
  /\ written' = [ written EXCEPT !.unified = b ]
  /\ UNCHANGED << logs, sample_rate, employee_counts_csv, job_flows_csv,
                  tenure_csv >>
  /\ UNCHANGED << b_pc, meta, emp_counts, turnover, employer_meta_csv,
                  turnover_csv, response >>
  /\ UNCHANGED << turnoverVars, flowVars, cacheVars, tenureVars, countVars, call >>

\* ------------------------------------------- resident service: _get_data
\* The source files are touched at most up to this mtime.
MaxMtime == 3

\* The frames computed from the source files as they stood at mtime v.
Frames(v) == [ merged |-> v, financial |-> v, monthly_financial |-> v ]

NoDiskCache == [ state |-> "absent", payload |-> << >> ]

CorruptDiskCache == [ state |-> "corrupt", payload |-> << >> ]

\* _load_disk_cache: no frames when the file is absent, fails to unpickle
\* or records a raw_mtime below the one given.
_load_disk_cache(mtime) ==
  IF disk_cache.state # "ok" THEN << >>
  ELSE IF disk_cache.payload.raw_mtime < mtime THEN << >>
  ELSE << disk_cache.payload.frames >>

\* _persist_disk_cache: the file is written; a failure to open it leaves
\* the old file, a failure while dumping leaves a truncated one, and both
\* are swallowed.
_persist_disk_cache(frames, mtime) ==
  { [ state |-> "ok", payload |-> [ raw_mtime |-> mtime, frames |-> frames ] ],
    disk_cache,
    CorruptDiskCache }

\* What a call of _get_data returned, with the state of the tiers it met.
Served(tier, frames, memory_fresh, disk_fresh, tiers_hold) ==
  [ tier |-> tier, merged |-> frames.merged, raw_mtime |-> raw_mtime,
    memory_fresh |-> memory_fresh, disk_fresh |-> disk_fresh,
    tiers_hold |-> tiers_hold ]

MemoryFresh ==
  "merged" \in DOMAIN DATA_CACHE /\ DATA_CACHE.merged >= raw_mtime

DiskFresh ==
  disk_cache.state = "ok" /\ disk_cache.payload.raw_mtime >= raw_mtime

_get_data ==
  IF "merged" \in DOMAIN DATA_CACHE
    THEN /\ served' = Served("memory", DATA_CACHE, MemoryFresh, DiskFresh, TRUE)
         /\ UNCHANGED << raw_mtime, DATA_CACHE, disk_cache >>
    ELSE LET raw_latest_mtime == raw_mtime
             disk_frames == _load_disk_cache(raw_latest_mtime)
         IN  IF disk_frames # << >>
               THEN /\ DATA_CACHE' = DictUpdate(DATA_CACHE, disk_frames[1])
                    /\ served' = Served("disk", disk_frames[1], MemoryFresh,
                                      DiskFresh, TRUE)
                    /\ UNCHANGED << raw_mtime, disk_cache >>
               ELSE LET frames_to_cache == Frames(raw_latest_mtime)
                    IN  /\ DATA_CACHE' = DictUpdate(DATA_CACHE, frames_to_cache)
                        /\ disk_cache' \in
                             _persist_disk_cache(frames_to_cache, raw_latest_mtime)
                        /\ served' =
                             Served("recompute", frames_to_cache, MemoryFresh,
                                    DiskFresh,
                                    /\ DATA_CACHE'.merged = raw_latest_mtime
                                    /\ disk_cache'.state = "ok"
                                    /\ disk_cache'.payload.frames = frames_to_cache)
                        /\ UNCHANGED raw_mtime

GetData ==
  /\ _get_data
  /\ UNCHANGED << turnoverVars, flowVars, tableVars, tenureVars,
                  countVars, buildVars, call >>

\* A source file of raw/ is rewritten.
TouchSource ==
  /\ raw_mtime < MaxMtime
  /\ raw_mtime' = raw_mtime + 1
  /\ UNCHANGED << DATA_CACHE, disk_cache, served >>
  /\ UNCHANGED << turnoverVars, flowVars, tableVars, tenureVars,
                  countVars, buildVars, call >>

\* The server process starts anew: the module global is empty again.
Restart ==
  /\ DATA_CACHE # << >>
  /\ DATA_CACHE' = << >>
  /\ UNCHANGED << raw_mtime, disk_cache, served >>
  /\ UNCHANGED << turnoverVars, flowVars, tableVars, tenureVars,
                  countVars, buildVars, call >>

NotServed ==
  [ tier |-> "none", merged |-> 0, raw_mtime |-> 0,
    memory_fresh |-> FALSE, disk_fresh |-> FALSE, tiers_hold |-> FALSE ]

CacheInit ==
  /\ raw_mtime = 1
  /\ DATA_CACHE = << >>
  /\ disk_cache = NoDiskCache
  /\ served = NotServed

\* --------------------------------------------------------- specifications
TurnoverInit ==
  /\ t_pc = "start"
  /\ t_i = 1
  /\ last_job_map = << >>
  /\ events = EmptyBag
  /\ processed = {}
  /\ appended = EmptyBag
  /\ hist = << >>

FlowsInit ==
  /\ f_pc = "start"
  /\ f_i = 1
  /\ f_last_job_map = << >>
  /\ transitions = EmptyBag
  /\ job_flows = {}

TenureInit ==
  /\ n_pc = "start"
  /\ n_i = 1
  /\ tenure_map = << >>
  /\ seen = {}
  /\ tenure_grp = {}
  /\ tenure = {}

CountsInit ==
  /\ c_pc = "start"
  /\ c_i = 1
  /\ c_rows = << >>
  /\ observed = {}

\* ------------------------------------- the passes over one log, as a whole
\* What the i-th file of a log can be: missing, empty, one record of
\* participant 1, or two records of its in time order.  The jobId column
\* holds a jobId, or is blank while the participant is unemployed.
LogFiles(i) ==
  { NoFile, CsvFile({}) }
    \cup { CsvFile({ [ timestamp |-> 2 * i - 1, participantId |-> 1,
                       jobId |-> j ] }) : j \in LogJobIds \cup { NaN } }
    \cup { CsvFile({ [ timestamp |-> 2 * i - 1, participantId |-> 1,
                       jobId |-> j ],
                     [ timestamp |-> 2 * i, participantId |-> 1,
                       jobId |-> j2 ] }) : j, j2 \in { 1, 2, NaN } }

LogSnapshots ==
  { f \in [ 1..NumChunks -> UNION { LogFiles(i) : i \in 1..NumChunks } ] :
      \A i \in 1..NumChunks : f[i] \in LogFiles(i) }

\* No function has been called yet; the passes below are called once on
\* a log.
NoCall == [ fn |-> "none", preloaded |-> FALSE, input |-> << >>, value |-> {} ]

\* for df in _iter_participant_status_logs(sample_rate=sample_rate)
LogFrames == IterLogs(logs, 1, sample_rate)

\* The all_logs_df argument: None, or the frame step 2 of the build
\* concatenates from the files.
AllLogsDf(preloaded) ==
  IF preloaded THEN << FullDf(LogFrames) >> ELSE << >>

\* The events list of _process_turnover on its path.
EventsOf(frames, all_logs_df) ==
  IF all_logs_df = << >> THEN StreamEvents(frames, 1, << >>)
  ELSE BagOfRowsPreloaded(
         ChangedRowsPreloaded(AddPrevPreloaded(all_logs_df[1])))

\* _process_turnover(all_logs_df, employee_counts_df) over the log, as step
\* 4 of the build calls it: its events list and the table it returns.
ProcessTurnoverCall ==
  /\ call = NoCall
  /\ \E preloaded \in BOOLEAN :
       call' = [ fn |-> "_process_turnover", preloaded |-> preloaded,
                 input |-> << >>,
                 value |->
                   [ events |-> EventsOf(LogFrames, AllLogsDf(preloaded)),
                     out |-> ProcessTurnover(
                               LogFrames, AllLogsDf(preloaded),
                               ProcessEmployeeCounts(LogFrames,
                                                     AllLogsDf(preloaded))) ] ]
  /\ UNCHANGED << turnoverVars, flowVars, tableVars, cacheVars, tenureVars,
                  countVars, buildVars >>

\* list(_iter_participant_status_logs(sample_rate)): the reader run to its
\* end.
IterLogsCall ==
  /\ call = NoCall
  /\ call' = [ fn |-> "_iter_participant_status_logs", preloaded |-> FALSE,
               input |-> << >>,
               value |-> IterChunks(logs, 1, sample_rate) ]
  /\ UNCHANGED << turnoverVars, flowVars, tableVars, cacheVars, tenureVars,
                  countVars, buildVars >>

\* The frames of a log in every order of the files.
Permuted(frames) ==
  { [ k \in DOMAIN frames |-> frames[p[k]] ] :
      p \in { q \in [ DOMAIN frames -> DOMAIN frames ] :
                \A i, j \in DOMAIN frames : q[i] = q[j] => i = j } }

\* The records of a log cut into NumChunks files in every way.
Repartitioned(frames) ==
  LET R == UNION { frames[k] : k \in DOMAIN frames }
  IN  { [ k \in 1..NumChunks |-> { r \in R : f[r] = k } ] :
          f \in [ R -> 1..NumChunks ] }

Arrangements(frames) == Permuted(frames) \cup Repartitioned(frames)

\* _process_employee_counts() over the files of the log, taken in another
\* order or cut differently.
ProcessEmployeeCountsCall ==
  /\ call = NoCall
  /\ \E frames \in Arrangements(LogFrames) :
       call' = [ fn |-> "_process_employee_counts", preloaded |-> FALSE,
                 input |-> frames,
                 value |-> ProcessEmployeeCounts(frames, << >>) ]
  /\ UNCHANGED << turnoverVars, flowVars, tableVars, cacheVars, tenureVars,
                  countVars, buildVars >>

\* _process_tenure() over the same.
ProcessTenureCall ==
  /\ call = NoCall
  /\ \E frames \in Arrangements(LogFrames) :
       call' = [ fn |-> "_process_tenure", preloaded |-> FALSE,
                 input |-> frames,
                 value |-> ProcessTenure(frames, << >>) ]
  /\ UNCHANGED << turnoverVars, flowVars, tableVars, cacheVars, tenureVars,
                  countVars, buildVars >>

\* _process_job_flows(all_logs_df) over the log.
ProcessJobFlowsCall ==
  /\ call = NoCall
  /\ \E preloaded \in BOOLEAN :
       call' = [ fn |-> "_process_job_flows", preloaded |-> preloaded,
                 input |-> << >>,
                 value |-> ProcessJobFlows(LogFrames, AllLogsDf(preloaded)) ]
  /\ UNCHANGED << turnoverVars, flowVars, tableVars, cacheVars, tenureVars,
                  countVars, buildVars >>

\* No call of build_employer_datasets has been made.
BuildIdle ==
  /\ call = NoCall
  /\ builds = [ b \in Builds |-> IdleBuild ]
  /\ employee_counts_csv = NoFile
  /\ job_flows_csv = NoFile
  /\ tenure_csv = NoFile
  /\ written = [ employer_meta |-> 0, employee_counts |-> 0, turnover |-> 0,
                 job_flows |-> 0, tenure |-> 0, unified |-> 0 ]

\* No build of the tables is under way and nothing is stored.
TableIdle ==
  /\ b_pc = "turnover"
  /\ meta = {}
  /\ emp_counts = {}
  /\ turnover = {}
  /\ employer_meta_csv = CsvFile({})
  /\ turnover_csv = NoFile
  /\ unified_pkl = [ state |-> "absent", dataset |-> << >> ]
  /\ response = NoResponse

\* build_employer_datasets stands at the aggregation of step 4: steps 1 and
\* 3 have returned their frames, employer_meta.csv is written, and the
\* events list is complete.
TableInit ==
  /\ t_pc = "aggregate"
  /\ t_i = NumChunks + 1
  /\ last_job_map = << >>
  /\ events \in EventBags
  /\ processed = {}
  /\ appended = EmptyBag
  /\ hist = << >>
  /\ b_pc = "turnover"
  /\ meta \in MetaFrames
  /\ employer_meta_csv = CsvFile(meta)
  /\ emp_counts \in CountFrames
  /\ turnover = {}
  /\ turnover_csv = NoFile
  /\ unified_pkl = [ state |-> "absent", dataset |-> << >> ]
  /\ response = NoResponse

\* _process_turnover on both of its paths, from the first file to the
\* table it writes.
\* The raw directory the passes below draw their files from by themselves.
NoSnapshot ==
  /\ logs = [ i \in 1..NumChunks |-> NoFile ]
  /\ sample_rate = 1

Init ==
  /\ TurnoverInit /\ FlowsInit /\ TableIdle /\ CacheInit
  /\ TenureInit /\ CountsInit /\ BuildIdle /\ NoSnapshot

Next ==
  \/ TurnoverStartStreaming
  \/ TurnoverSkipMissing
  \/ TurnoverChunk
  \/ TurnoverLoopEnd
  \/ TurnoverPreloaded
  \/ TurnoverAggregate

Spec == Init /\ [][Next]_vars

\* _process_job_flows on both of its paths.
NextFlows ==
  \/ FlowsStartStreaming
  \/ FlowsSkipMissing
  \/ FlowsChunk
  \/ FlowsLoopEnd
  \/ FlowsPreloaded
  \/ FlowsAggregate

SpecFlows == Init /\ [][NextFlows]_vars

\* The aggregation of the events into the turnover table, the saving of
\* the tables, and the turnover reads over what is stored.
InitTable ==
  /\ TableInit /\ FlowsInit /\ CacheInit /\ TenureInit /\ CountsInit
  /\ BuildIdle /\ NoSnapshot

NextTable ==
  \/ TurnoverAggregate
  \/ SaveUnified
  \/ get_turnover_heatmap_data
  \/ get_geographic_turnover_data
  \/ get_city_metrics

SpecTable == InitTable /\ [][NextTable]_vars

\* _process_tenure on both of its paths.
NextTenure ==
  \/ TenureStartStreaming
  \/ TenureSkipMissing
  \/ TenureChunk
  \/ TenureLoopEnd
  \/ TenurePreloaded
  \/ TenureAggregate

SpecTenure == Init /\ [][NextTenure]_vars

\* _process_employee_counts on both of its paths.
NextCounts ==
  \/ CountsStartStreaming
  \/ CountsSkipMissing
  \/ CountsChunk
  \/ CountsLoopEnd
  \/ CountsPreloaded

SpecCounts == Init /\ [][NextCounts]_vars

\* The calls of build_employer_datasets over one snapshot of the raw
\* directory, from an empty processed directory.
InitBuild ==
  /\ TurnoverInit /\ FlowsInit /\ CacheInit /\ TenureInit /\ CountsInit
  /\ BuildIdle
  /\ logs \in Snapshots
  /\ sample_rate \in SampleRates
  /\ b_pc = "turnover"
  /\ meta = {}
  /\ emp_counts = {}
  /\ turnover = {}
  /\ employer_meta_csv = NoFile
  /\ turnover_csv = NoFile
  /\ unified_pkl = [ state |-> "absent", dataset |-> << >> ]
  /\ response = NoResponse

NextBuild ==
  \E b \in Builds :
    \/ BuildStart(b)
    \/ BuildMeta(b)
    \/ BuildPreload(b)
    \/ BuildCounts(b)
    \/ BuildTurnover(b)
    \/ BuildFlows(b)
    \/ BuildTenure(b)
    \/ BuildOpenBundle(b)
    \/ BuildDumpBundle(b)

SpecBuild == InitBuild /\ [][NextBuild]_vars

\* The passes of the build, each applied to one log as a whole.
InitLog ==
  /\ TurnoverInit /\ FlowsInit /\ TableIdle /\ CacheInit
  /\ TenureInit /\ CountsInit /\ BuildIdle
  /\ logs \in LogSnapshots
  /\ sample_rate \in SampleRates

NextLog ==
  \/ IterLogsCall
  \/ ProcessJobFlowsCall
  \/ ProcessTurnoverCall

SpecLog == InitLog /\ [][NextLog]_vars

\* The two order-free passes, applied to a log whose files are shuffled.
\* The logs are those with no empty file whose files of two records begin
\* with job 1.
OrderSnapshots ==
  { f \in LogSnapshots :
      \A i \in 1..NumChunks :
        /\ f[i].exists => f[i].rows # {}
        /\ \A r \in f[i].rows :
             (Cardinality(f[i].rows) = 2 /\ r.timestamp = 2 * i - 1)
               => r.jobId = 1 }

InitOrder ==
  /\ TurnoverInit /\ FlowsInit /\ TableIdle /\ CacheInit
  /\ TenureInit /\ CountsInit /\ BuildIdle
  /\ logs \in OrderSnapshots
  /\ sample_rate = 1

NextOrder ==
  \/ ProcessEmployeeCountsCall
  \/ ProcessTenureCall

SpecOrder == InitOrder /\ [][NextOrder]_vars

\* The two cache tiers of the resident service.
NextCache ==
  \/ GetData
  \/ TouchSource
  \/ Restart

SpecCache == Init /\ [][NextCache]_vars

\* ------------------------------------------------------ claim vocabulary
\* The JobReference resolution of a jobId, read off Jobs.csv directly.
Resolved(j) == \E r \in JobsCsv : r.jobId = j

EmployerOf(j) == (CHOOSE r \in JobsCsv : r.jobId = j).employerId

HireEv(m, e) == [ month |-> m, employerId |-> e, hires |-> 1, quits |-> 0, switches |-> 0 ]

QuitEv(m, e) == [ month |-> m, employerId |-> e, hires |-> 0, quits |-> 1, switches |-> 0 ]

SwitchOutEv(m, e) == [ month |-> m, employerId |-> e, hires |-> 0, quits |-> 1, switches |-> 1 ]

\* The code records the entry half of a switch like a hire.
SwitchInEv(m, e) == HireEv(m, e)

\* The events the spec's classification table asks for.
Expected(m, prev, curr) ==
  IF ~ Resolved(prev) /\ Resolved(curr) THEN << HireEv(m, EmployerOf(curr)) >>
  ELSE IF Resolved(prev) /\ ~ Resolved(curr) THEN << QuitEv(m, EmployerOf(prev)) >>
  ELSE IF Resolved(prev) /\ Resolved(curr) /\ EmployerOf(prev) # EmployerOf(curr)
    THEN << SwitchOutEv(m, EmployerOf(prev)), SwitchInEv(m, EmployerOf(curr)) >>
  ELSE << >>

\* The jobId the reconstructor should hold for a prior observation.
AsJob(prior) ==
  IF prior.chunk = 0 THEN NaN
  ELSE IF prior.jobId = NaN THEN Unemployed ELSE prior.jobId

\* The participant was last seen in a chunk before the previous one.
AfterGap(x) == x.first /\ x.prior.chunk >= 1 /\ x.prior.chunk < x.chunk - 1

RECURSIVE BagOfProcessed(_)
BagOfProcessed(rows) ==
  IF rows = {} THEN EmptyBag
  ELSE LET x == CHOOSE y \in rows : TRUE
       IN  SeqToBag(x.events) (+) BagOfProcessed(rows \ {x})

\* A read that asks for the filling of month r.month.
IsFillRead(r) ==
  r.endpoint \in {"heatmap", "geographic"} /\ r.fill_missing /\ r.month # None

\* The employer universe a read worked against.
Universe(r) == { m.employerId : m \in r.meta }

\* The rows the read found stored for its month and employer e.
StoredRows(r, e) == { s \in r.df : s.month = r.month /\ s.employerId = e }

\* The rows the read returned for employer e.
ReturnedRows(r, e) == { x \in r.data : x.employerId = e }

\* The geographic read returns no net_change column.
Zeroed(x) ==
  /\ x.hires = 0 /\ x.quits = 0 /\ x.turnoverRate = ZeroFloat
  /\ "net_change" \in DOMAIN x => x.net_change = 0

SameActivity(x, s) ==
  /\ x.hires = s.hires /\ x.quits = s.quits /\ x.turnoverRate = s.turnoverRate
  /\ "net_change" \in DOMAIN x => x.net_change = s.net_change

\* The frame of daily counts has no positive count for (m, e): the average
\* employee count is absent or 0.
NoHeadcount(m, e) ==
  \A r \in emp_counts : (r.month = m /\ r.employerId = e) => r.employeeCount = 0

IsZero(f) == f.den > 0 /\ f.num = 0

\* A finite number that is not negative.
NonNegative(f) == f.den > 0 /\ f.num >= 0

\* The pairs the tenure pass has met, and the timestamps it met a pair at.
SeenPairs == { << s.participantId, s.jobId >> : s \in seen }

SeenTimes(k) ==
  { s.timestamp : s \in { x \in seen : x.participantId = k[1]
                                         /\ x.jobId = k[2] } }

\* d is the number of whole days that lie between two instants.
WholeDays(d, tmin, tmax) ==
  /\ d * TicksPerDay <= tmax - tmin
  /\ tmax - tmin < (d + 1) * TicksPerDay

\* The participants sighted with a job at employer e on day d.
ObservedAt(d, e) ==
  { o.participantId : o \in { x \in observed : x.date = d /\ x.employerId = e } }

\* The number of events of the list that fall on (month, employerId) and
\* are of one of the given kinds.
CountOf(kinds) ==
  LET S == kinds \cap BagToSet(events)
      RECURSIVE Total(_)
      Total(T) == IF T = {} THEN 0
                  ELSE LET e == CHOOSE x \in T : TRUE
                       IN  CopiesIn(e, events) + Total(T \ {e})
  IN  Total(S)

\* A call of the build that has begun its steps and not yet ended.
InProgress(b) ==
  builds[b].pc \in { "meta", "preload", "counts", "turnover", "flows",
                     "tenure", "save", "dump" }

\* The four tables of a bundle a call returned.
TablesOf(dataset) ==
  << dataset.employee_counts, dataset.turnover, dataset.job_flows,
     dataset.tenure >>

\* The calls that returned a bundle.
Returned == { b \in Builds : builds[b].ret # << >> }

\* The build that wrote the table a read loads, 0 when no build did: the
\* writer of the bundle when the bundle loads, else the writer of the CSV
\* file when it exists.
SourceOf(csv, name) ==
  IF CachedDataset # << >> THEN written.unified
  ELSE IF csv.exists THEN written[name]
  ELSE 0

\* _load_employer_meta_df and _load_turnover_df, as the turnover reads call
\* them one after the other.
SourcesRead ==
  { SourceOf(employer_meta_csv, "employer_meta"),
    SourceOf(turnover_csv, "turnover") }

\* The bundle exists and does not load.
BundleCorrupt == unified_pkl.state = "partial"

\* A turnover read is answered from turnover.csv.
AnsweredFromCsv == CachedDataset = << >> /\ turnover_csv.exists

\* Some call has pickled a complete bundle.
BundleSaved == \E b \in Builds : builds[b].pc = "done"

\* The jobIds the log files of the snapshot carry, and the employers that
\* Jobs.csv gives for them.
ObservedJobIds ==
  { r.jobId : r \in UNION { logs[i].rows : i \in 1..NumChunks } }

ResolvedObserved ==
  { j.employerId : j \in { x \in JobsCsv : x.jobId \in ObservedJobIds } }

\* The employers a bundle's four tables name.
EmployersNamed(c, t, f, n) ==
  { r.employerId : r \in c } \cup { r.employerId : r \in t }
    \cup { r.fromEmployer : r \in f } \cup { r.toEmployer : r \in f }
    \cup { r.employerId : r \in n }

\* The row of participant p with the latest timestamp among the rows of
\* the frame just processed.
LatestProcessed(rows, p) ==
  CHOOSE x \in RowsOf(rows, p) :
    \A y \in RowsOf(rows, p) : y.row.timestamp <= x.row.timestamp

\* --------------------------------------------------------------- claims
\* C1: a fill-missing read of month m (heatmap or geographic) returns
\* exactly one row for each employerId of the universe, and an employer
\* with no stored row for m gets hires = 0, quits = 0, net_change = 0 and
\* turnoverRate = 0.0.
C1_OneRowPerEmployer ==
  IsFillRead(response) =>
    \A e \in Universe(response) :
      /\ Cardinality(ReturnedRows(response, e)) = 1
      /\ StoredRows(response, e) = {} =>
           \A x \in ReturnedRows(response, e) : Zeroed(x)

\* A geographic fill read over a table that holds a row of the month for
\* one employer of the universe and none for another.
C1_Witness ==
  /\ IsFillRead(response) /\ response.endpoint = "geographic"
  /\ \E e1, e2 \in Universe(response) :
       StoredRows(response, e1) # {} /\ StoredRows(response, e2) = {}

\* C2: a fill-missing read leaves recorded activity untouched: an employer
\* of the universe with a stored row for month m is returned with the
\* hires, quits, net_change and turnoverRate of that row.
C2_StoredRowsUntouched ==
  IsFillRead(response) =>
    \A e \in Universe(response) :
      \A s \in StoredRows(response, e) :
        /\ ReturnedRows(response, e) # {}
        /\ \A x \in ReturnedRows(response, e) : SameActivity(x, s)

\* A heatmap fill read that carries over a stored row with a positive rate
\* next to an employer it had to zero.
C2_Witness ==
  /\ IsFillRead(response) /\ response.endpoint = "heatmap"
  /\ \E e1, e2 \in Universe(response) :
       /\ \E s \in StoredRows(response, e1) : s.turnoverRate.num > 0
       /\ StoredRows(response, e2) = {}

\* C3 as claimed: a read never serves a bundle built from sources older
\* than the current latest source mtime, from the memory tier or from the
\* disk tier.
C3_NeverServesStale ==
  served.tier # "none" => served.merged >= served.raw_mtime

\* C4 as claimed: a read serves the memory bundle if it is fresh, else the
\* disk bundle if it is fresh, else it recomputes, and after a recompute
\* both tiers hold the new bundle.
C4_TierOrder ==
  /\ served.tier = "memory" => served.memory_fresh
  /\ served.tier = "disk" => ~ served.memory_fresh /\ served.disk_fresh
  /\ served.tier = "recompute" =>
       /\ ~ served.memory_fresh /\ ~ served.disk_fresh
       /\ served.tiers_hold

\* C5: every detected transition (a row whose jobId differs from its
\* prev_jobId), on the streaming and on the preloaded path, appends exactly
\* the events of the classification table: unresolved->resolved one Hire,
\* resolved->unresolved one Quit, resolved->resolved with different
\* employers one Switch-Out and one Switch-In, anything else nothing.
C5_Classification ==
  \A x \in processed :
    x.changed =>
      x.events = Expected(MonthOf(x.row.timestamp), x.row.prev_jobId, x.row.jobId)

C5_Witness ==
  /\ \E x \in processed :
       /\ x.changed /\ Resolved(x.row.prev_jobId) /\ Resolved(x.row.jobId)
       /\ EmployerOf(x.row.prev_jobId) # EmployerOf(x.row.jobId)
       /\ Len(x.events) = 2
  /\ \E x \in processed :
       /\ x.changed /\ Resolved(x.row.prev_jobId) /\ Resolved(x.row.jobId)
       /\ EmployerOf(x.row.prev_jobId) = EmployerOf(x.row.jobId)
       /\ x.events = << >>

\* C6: on the streaming path the previous job of a participant's first
\* record in a chunk is the job of its latest record in the most recent
\* earlier chunk that held the participant (none if never seen), and of
\* every later record it is the job of the record just before it in the
\* chunk; a never-seen participant yields one Hire if its job resolves and
\* nothing otherwise.
C6_CarryOver ==
  \A x \in processed :
    x.chunk >= 1 =>
      /\ x.row.prev_jobId = AsJob(x.prior)
      /\ x.prior.chunk = 0 =>
            x.events = IF Resolved(x.row.jobId)
                         THEN << HireEv(MonthOf(x.row.timestamp), EmployerOf(x.row.jobId)) >>
                         ELSE << >>

C6_Witness ==
  /\ \E x \in processed :
       x.first /\ x.prior.chunk >= 1 /\ x.prior.chunk < x.chunk /\ x.changed
  /\ \E x \in processed : ~ x.first /\ x.prior.chunk = x.chunk /\ x.changed

\* C7: a participant last seen with a job of employer A, absent from the
\* chunks in between, and seen again with a job of employer B # A yields
\* exactly Switch-Out(A) and Switch-In(B) in the month of the new record;
\* the events appended while a chunk is processed are those of the rows of
\* that chunk and no others, so an absent participant contributes none.
C7_GapSwitch ==
  /\ \A x \in processed :
       ( /\ AfterGap(x)
         /\ Resolved(x.prior.jobId) /\ Resolved(x.row.jobId)
         /\ EmployerOf(x.prior.jobId) # EmployerOf(x.row.jobId) )
       => x.events = << SwitchOutEv(MonthOf(x.row.timestamp), EmployerOf(x.prior.jobId)),
                        SwitchInEv(MonthOf(x.row.timestamp), EmployerOf(x.row.jobId)) >>
  /\ appended = BagOfProcessed(processed)

C7_Witness ==
  \E x \in processed :
    /\ AfterGap(x)
    /\ Resolved(x.prior.jobId) /\ Resolved(x.row.jobId)
    /\ EmployerOf(x.prior.jobId) # EmployerOf(x.row.jobId)
    /\ Len(x.events) = 2

\* C8 as claimed: a participant seen with one and the same job in two
\* chunks with a gap in between has no event at all.
C8_ZeroEvents ==
  \A x \in processed :
    ( /\ AfterGap(x)
      /\ hist[x.row.participantId].steady
      /\ x.row.jobId # Unemployed )
    => hist[x.row.participantId].nEvents = 0

\* C8 as amended: the re-observation itself appends nothing (the row is no
\* transition), and all the participant has is the Hire of its very first
\* record, present exactly when the job resolves.
C8_ReobservationSilent ==
  \A x \in processed :
    ( /\ x.chunk >= 1 /\ x.first /\ x.prior.chunk >= 1
      /\ hist[x.row.participantId].steady
      /\ x.row.jobId # Unemployed )
    => /\ ~ x.changed /\ x.events = << >>
       /\ hist[x.row.participantId].nEvents
            = IF Resolved(x.row.jobId) THEN 1 ELSE 0

C8_Witness ==
  \E x \in processed :
    /\ AfterGap(x)
    /\ hist[x.row.participantId].steady
    /\ Resolved(x.row.jobId)
    /\ hist[x.row.participantId].nEvents = 1

\* C9: on the streaming and on the preloaded path every Job Flow row joins
\* two different employers and counts at least one transition.
C9_FlowsDistinct ==
  /\ \A t \in BagToSet(transitions) : t.fromEmployer # t.toEmployer
  /\ \A row \in job_flows :
       row.fromEmployer # row.toEmployer /\ row.count >= 1

C9_Witness ==
  /\ f_pc = "done" /\ f_i > NumChunks
  /\ \E row \in job_flows : row.count >= 2

\* C10 as claimed: every row of the turnover table, as built and as a read
\* returns it, has a rate that is a number >= 0, and the rate is 0 exactly
\* when the average employee count of its (month, employerId) is 0 or
\* absent.
C10_ZeroIffNoHeadcount ==
  /\ \A r \in turnover_csv.rows :
       /\ NonNegative(r.turnoverRate)
       /\ IsZero(r.turnoverRate) <=> NoHeadcount(r.month, r.employerId)
  /\ \A x \in response.data :
       /\ NonNegative(x.turnoverRate)
       /\ IsZero(x.turnoverRate) <=> NoHeadcount(x.month, x.employerId)

\* C10 as amended: every rate, built or returned, is a number >= 0 (the
\* computation never fails on a zero or missing denominator); a row of the
\* built table, and a returned row that carries one over, has rate 0
\* exactly when the average employee count is 0 or absent; a row that a
\* fill-missing read had to add has rate 0 whatever the employee count.
C10_RateNonNegative ==
  /\ \A r \in turnover_csv.rows :
       /\ NonNegative(r.turnoverRate)
       /\ IsZero(r.turnoverRate) <=> NoHeadcount(r.month, r.employerId)
  /\ \A x \in response.data :
       /\ NonNegative(x.turnoverRate)
       /\ IF \E s \in response.df :
               s.month = x.month /\ s.employerId = x.employerId
            THEN IsZero(x.turnoverRate) <=> NoHeadcount(x.month, x.employerId)
            ELSE IsZero(x.turnoverRate)

\* A fill read that returns a carried-over row with a positive rate and a
\* zeroed row for an employer whose employee count is positive.
C10_Witness ==
  /\ IsFillRead(response)
  /\ \E x, y \in response.data :
       /\ StoredRows(response, x.employerId) = {}
       /\ ~ NoHeadcount(x.month, x.employerId)
       /\ StoredRows(response, y.employerId) # {}
       /\ y.turnoverRate.num > 0

\* C11: while the files are read, the tracked interval of every
\* (participantId, jobId) pair is [min, max] of all the timestamps met for it
\* so far, in whatever order the files bring them; and every row of the pair
\* frame, on either path, spans exactly those timestamps and has a tenure
\* >= 0 equal to max - min in whole days.
C11_IntervalMerge ==
  /\ n_pc = "loop" =>
       /\ DOMAIN tenure_map = SeenPairs
       /\ \A k \in SeenPairs :
            tenure_map[k] = << MinOf(SeenTimes(k)), MaxOf(SeenTimes(k)) >>
  /\ \A r \in tenure_grp :
       LET k == << r.participantId, r.jobId >>
       IN  /\ k \in SeenPairs
           /\ r.min = MinOf(SeenTimes(k))
           /\ r.max = MaxOf(SeenTimes(k))
           /\ r.tenure_days >= 0
           /\ WholeDays(r.tenure_days, r.min, r.max)

\* The files are read, a pair was met at three instants (so in two files
\* at least) and its tenure is a day or more.
C11_Witness ==
  /\ n_pc = "done" /\ n_i > NumChunks
  /\ \E r \in tenure_grp :
       /\ Cardinality(SeenTimes(<< r.participantId, r.jobId >>)) >= 3
       /\ r.tenure_days >= 1

\* C20: the employee-count table has exactly one row per (date, employerId)
\* at which somebody was sighted with a job, and its employeeCount is the
\* number of distinct participants sighted there over all files: a
\* participant met in two files on the same day counts once.
C20_CountIsUnion ==
  c_pc = "done" =>
    /\ \A r \in emp_counts :
         /\ r.employeeCount = Cardinality(ObservedAt(r.date, r.employerId))
         /\ r.employeeCount >= 1
         /\ \A q \in emp_counts :
              (q.date = r.date /\ q.employerId = r.employerId) => q = r
    /\ \A o \in observed :
         \E r \in emp_counts : r.date = o.date /\ r.employerId = o.employerId

\* The streaming pass is over, and two files brought the same participant
\* for the same day and employer.
C20_Witness ==
  /\ c_pc = "done" /\ c_i > NumChunks
  /\ \E i, j \in DOMAIN c_rows :
       /\ i # j
       /\ \E x \in c_rows[i], y \in c_rows[j] :
            /\ x.day = y.day /\ x.employerId = y.employerId
            /\ x.participantId \cap y.participantId # {}
            /\ x.participantId # y.participantId

\* C18: every row of the employee-count, turnover, job-flow and tenure
\* tables, as a build holds them, as the CSV files hold them and as a
\* returned bundle holds them, names an employer that Jobs.csv gives for a
\* jobId the log files carry: a jobId without a Jobs.csv row adds no
\* employer to any table.
C18_EmployersResolved ==
  /\ \A b \in Builds :
       /\ EmployersNamed(builds[b].emp_counts, builds[b].turnover,
                         builds[b].flows, builds[b].tenure)
            \subseteq ResolvedObserved
       /\ builds[b].ret # << >> =>
            EmployersNamed(builds[b].ret[1].employee_counts,
                           builds[b].ret[1].turnover,
                           builds[b].ret[1].job_flows,
                           builds[b].ret[1].tenure) \subseteq ResolvedObserved
  /\ EmployersNamed(employee_counts_csv.rows, turnover_csv.rows,
                    job_flows_csv.rows, tenure_csv.rows)
       \subseteq ResolvedObserved

\* A build over log files that carry a jobId without a Jobs.csv row and
\* two jobs of different employers has returned, each table with rows.
C18_Witness ==
  /\ 4 \in ObservedJobIds
  /\ Cardinality(ResolvedObserved) = 2
  /\ \E b \in Builds :
       /\ builds[b].pc = "done"
       /\ builds[b].emp_counts # {} /\ builds[b].turnover # {}
       /\ builds[b].tenure # {}

\* C19: the turnover table has exactly one row per (month, employerId) with
\* at least one event and none for any other pair; the row's hires is the
\* number of Hire and Switch-In events of the pair, its quits the number of
\* Quit and Switch-Out events, and its net_change is hires - quits.
C19_TurnoverSums ==
  t_pc = "done" =>
    /\ \A r \in turnover_csv.rows :
         /\ r.hires = CountOf({ HireEv(r.month, r.employerId),
                                SwitchInEv(r.month, r.employerId) })
         /\ r.quits = CountOf({ QuitEv(r.month, r.employerId),
                                SwitchOutEv(r.month, r.employerId) })
         /\ r.net_change = r.hires - r.quits
         /\ r.hires + r.quits >= 1
         /\ \A q \in turnover_csv.rows :
              (q.month = r.month /\ q.employerId = r.employerId) => q = r
    /\ \A e \in BagToSet(events) :
         \E r \in turnover_csv.rows :
           r.month = e.month /\ r.employerId = e.employerId
    /\ turnover = turnover_csv.rows

\* The table is written after the streaming loop and one of its rows adds
\* up two entries and a departure.
C19_Witness ==
  /\ t_pc = "done" /\ t_i > NumChunks
  /\ \E r \in turnover_csv.rows :
       r.hires >= 2 /\ r.quits >= 1 /\ r.net_change = r.hires - r.quits

C13_AbortLeavesCache ==
  \A b \in Builds :
    ( /\ builds[b].pc = "aborted"
      /\ \A a \in Builds \ {b} : builds[a].pc = "idle" )
    => ReadTables = builds[b].before[1]

\* C14 as claimed: while the bundle exists but does not load, no read is
\* answered from another persisted tier.
C14_CorruptNotAnswered == ~ ( BundleCorrupt /\ AnsweredFromCsv )

\* C15 as claimed: the tables a read loads all come from one and the same
\* build, and that build has completed.
C15_OneCompletedBuild ==
  \/ SourcesRead = {0}
  \/ \E b \in Builds : SourcesRead = {b} /\ builds[b].pc = "done"

\* C16 as claimed: at most one build is in progress at any time.
C16_SingleBuilder ==
  Cardinality({ b \in Builds : InProgress(b) }) <= 1

\* C17 as claimed: once a complete bundle has been pickled, every read
\* loads a complete bundle, the previous one or the new one.
C17_AtomicReplace == BundleSaved => CachedDataset # << >>

\* C26: a step of the streaming loop sets last_job_map[p], for every
\* participant p with a row in the frame just processed, to the jobId (or
\* the unemployed sentinel) of p's latest row in that frame, leaves
\* last_job_map[q] as it was for every other participant q, and removes no
\* entry.
C26_LastJobUpdate ==
  [][ t_pc = "loop" =>
        /\ DOMAIN last_job_map' =
             (DOMAIN last_job_map) \cup { x.row.participantId : x \in processed' }
        /\ \A p \in DOMAIN last_job_map' :
             IF RowsOf(processed', p) # {}
               THEN last_job_map'[p] = LatestProcessed(processed', p).row.jobId
               ELSE last_job_map'[p] = last_job_map[p] ]_vars

\* A frame has been processed in which one known participant has no row
\* and another, known before with a job, ends unemployed.
C26_Witness ==
  /\ t_pc = "loop" /\ t_i > 2
  /\ \E p, q \in DOMAIN last_job_map :
       /\ RowsOf(processed, p) = {}
       /\ RowsOf(processed, q) # {}
       /\ last_job_map[q] = Unemployed
       /\ \E x \in RowsOf(processed, q) :
            x.prior.chunk \notin {0, x.chunk} /\ x.prior.jobId # NaN

\* The Switch transitions of the Event Reconstructor: a changed row whose
\* classification appends a Switch-Out and a Switch-In is one transition
\* from the employer of the first to the employer of the second.
SwitchOf(ev) ==
  IF Len(ev) = 2
    THEN SeqToBag(<< [ fromEmployer |-> ev[1].employerId,
                       toEmployer |-> ev[2].employerId ] >>)
    ELSE EmptyBag

RECURSIVE SwitchesOfRows(_, _)
SwitchesOfRows(rows, preloaded) ==
  IF rows = {} THEN EmptyBag
  ELSE LET r == CHOOSE x \in rows : TRUE
       IN  SwitchOf(IF preloaded THEN RowEventsPreloaded(r) ELSE RowEvents(r))
             (+) SwitchesOfRows(rows \ {r}, preloaded)

RECURSIVE StreamSwitches(_, _, _)
StreamSwitches(frames, k, ljm) ==
  IF k > Len(frames) THEN EmptyBag
  ELSE LET df  == FillUnemployed(frames[k])
           dfp == AddPrev(df, ljm)
       IN  IF df = {} THEN StreamSwitches(frames, k + 1, ljm)
           ELSE SwitchesOfRows(ChangedRows(dfp), FALSE)
                  (+) StreamSwitches(frames, k + 1, DictUpdate(ljm, LastJobs(df)))

\* The Switch transitions _process_turnover makes of the log on the path
\* the call took.
SwitchesOfLog(preloaded) ==
  IF preloaded
    THEN SwitchesOfRows(
           ChangedRowsPreloaded(AddPrevPreloaded(AllLogsDf(TRUE)[1])), TRUE)
    ELSE StreamSwitches(LogFrames, 1, << >>)

SwitchTable(preloaded) ==
  IF SwitchesOfLog(preloaded) = EmptyBag THEN {}
  ELSE GroupSize(SwitchesOfLog(preloaded))

\* C21: the job flow table of a log counts, for every ordered pair of
\* employers, the Switch transitions the Event Reconstructor makes of the
\* same log; a Quit followed by a Hire is no flow.
C21_FlowsAreSwitches ==
  call.fn = "_process_job_flows" => call.value = SwitchTable(call.preloaded)

\* The same on the preloaded path alone, where both passes read the frame
\* the blank jobIds were dropped from.
C21_PreloadedFlowsAreSwitches ==
  (call.fn = "_process_job_flows" /\ call.preloaded)
    => call.value = SwitchTable(TRUE)

C21_PreloadedWitness ==
  /\ call.fn = "_process_job_flows" /\ call.preloaded
  /\ call.value # {}

\* C22: the reader yields the files that exist, and no other, in strictly
\* increasing order of their ids, each once, with the rows of the file; a
\* missing file is passed over and the files after it are still yielded.
C22_ReaderSkipsMissing ==
  call.fn = "_iter_participant_status_logs" =>
    LET ys == call.value
    IN  /\ \A k, l \in DOMAIN ys : k < l => ys[k].id < ys[l].id
        /\ { ys[k].id : k \in DOMAIN ys }
             = { i \in 1..NumChunks : logs[i].exists }
        /\ \A k \in DOMAIN ys :
             ys[k].df = IF sample_rate > 1
                          THEN Sample(logs[ys[k].id].rows, sample_rate)
                          ELSE logs[ys[k].id].rows

C22_Witness ==
  /\ call.fn = "_iter_participant_status_logs"
  /\ Len(call.value) = 2
  /\ \E i, j, k \in 1..NumChunks :
       /\ i < j /\ j < k
       /\ logs[i].exists /\ ~ logs[j].exists /\ logs[k].exists
       /\ logs[k].rows # {}

\* The frames the city read loaded, and the months of either.
CityMonths ==
  { r.month : r \in call.input[1] } \cup { t.month : t \in call.input[2] }

\* The days of month m that have an employee-count row.
CityDays(m) == { r.date : r \in { x \in call.input[1] : x.month = m } }

FloatEq(a, b) == a.num * b.den = b.num * a.den

\* C23: the city read has one row for every month of either table; its
\* totalHires and totalQuits are the sums over the employers of the month,
\* its avgTotalEmployment the mean over the days of the month of the
\* summed head counts (0 without any count row), and its cityTurnoverRate
\* (totalHires + totalQuits) / avgTotalEmployment, or 0.0 when that is 0.
C23_CityMetrics ==
  (call.fn = "get_city_metrics" /\ call.input # << >>) =>
    LET out == { call.value[k] : k \in DOMAIN call.value }
    IN  /\ Cardinality(out) = Len(call.value)
        /\ { r.month : r \in out } = CityMonths
        /\ \A r, q \in out : r.month = q.month => r = q
        /\ \A r \in out :
             LET trn  == { t \in call.input[2] : t.month = r.month }
                 emp  == { x \in call.input[1] : x.month = r.month }
                 days == CityDays(r.month)
             IN  /\ r.totalHires = SumField(trn, "hires")
                 /\ r.totalQuits = SumField(trn, "quits")
                 /\ IF days = {}
                      THEN r.avgTotalEmployment.num = 0
                      ELSE FloatEq(r.avgTotalEmployment,
                                   Float(SumCount(emp), Cardinality(days)))
                 /\ IF r.avgTotalEmployment.num = 0
                      THEN r.cityTurnoverRate = ZeroFloat
                      ELSE /\ r.cityTurnoverRate.den # 0
                           /\ r.cityTurnoverRate.num * r.avgTotalEmployment.num
                                = (r.totalHires + r.totalQuits)
                                    * r.avgTotalEmployment.den
                                    * r.cityTurnoverRate.den

\* A month with events but no employee-count row, next to a month whose
\* rate is a true quotient.
C23_Witness ==
  /\ call.fn = "get_city_metrics" /\ call.input # << >>
  /\ \E k \in DOMAIN call.value :
       /\ CityDays(call.value[k].month) = {}
       /\ call.value[k].totalHires + call.value[k].totalQuits > 0
       /\ call.value[k].cityTurnoverRate = ZeroFloat
  /\ \E k \in DOMAIN call.value :
       /\ Cardinality(CityDays(call.value[k].month)) = 2
       /\ call.value[k].avgTotalEmployment.num > 0

\* The persisted tables and the bundle.
Persisted ==
  << unified_pkl, employer_meta_csv, turnover_csv, employee_counts_csv,
     job_flows_csv, tenure_csv >>

\* What the reads of month m without fill_missing return.
PlainHeatmap(m) == MonthRows(LoadTurnoverDf, m)

PlainGeographic(m) == MergeMeta(MonthRows(LoadTurnoverDf, m), LoadEmployerMetaDf)

\* C24: a read with fill_missing leaves the bundle and every persisted
\* table as they were, and with them the rows the reads of any month
\* without fill_missing return.
C24_FillReadsPersistNothing ==
  [][ ( (get_turnover_heatmap_data \/ get_geographic_turnover_data)
        /\ response'.fill_missing /\ response'.month # None )
      => /\ Persisted' = Persisted
         /\ \A m \in ReadMonths \ {None} :
              /\ PlainHeatmap(m)' = PlainHeatmap(m)
              /\ PlainGeographic(m)' = PlainGeographic(m) ]_vars

\* A fill-missing read has fabricated rows for a month that has stored
\* rows in the bundle.
C24_Witness ==
  /\ response.endpoint = "heatmap"
  /\ response.fill_missing /\ response.month # None
  /\ unified_pkl.state = "ok"
  /\ PlainHeatmap(response.month) # {}
  /\ \E r \in response.data : r \notin PlainHeatmap(response.month)

\* What a read returns of the rows it was given: the heatmap read the rows
\* themselves, the geographic read the rows merged with the employer meta.
Answered(rows) ==
  IF response.endpoint = "geographic" THEN MergeMeta(rows, response.meta)
  ELSE rows

\* C30: a read with fill_missing and no month fills nothing and returns
\* what the read without fill_missing returns, all stored rows; a read
\* with fill_missing for a month, made while no employer is known, returns
\* the stored rows of that month and no other row.
C30_NothingToFill ==
  (response.endpoint # "none" /\ response.fill_missing) =>
    /\ response.month = None =>
         /\ response.data = Answered(response.df)
         /\ response.info = << >>
    /\ (response.month # None /\ response.meta = {}) =>
         response.data = Answered({ r \in response.df : r.month = response.month })

C30_Witness ==
  /\ response.endpoint # "none" /\ response.fill_missing
  /\ response.month # None /\ response.meta = {}
  /\ response.data # {}

C30_WitnessNoMonth ==
  /\ response.endpoint # "none" /\ response.fill_missing
  /\ response.month = None
  /\ response.meta # {} /\ response.data # {}

\* The files a call has written last.
WrittenBy(b) == { f \in DOMAIN written : written[f] = b }

\* The tables a call that has got through all of its steps has made of
\* the log files.
Recomputed(b) ==
  Unified(ProcessEmployerMeta,
          ProcessEmployeeCounts(FramesOf(b), builds[b].full_df),
          ProcessTurnover(FramesOf(b), builds[b].full_df, builds[b].emp_counts),
          ProcessJobFlows(FramesOf(b), builds[b].full_df),
          ProcessTenure(FramesOf(b), builds[b].full_df))

\* A call takes its first step: it returns the bundle at once, or begins
\* the build.
Starts(b) == builds[b].pc = "idle" /\ builds'[b].pc # "idle"

\* C25: a call with force_rebuild unset that finds a loadable bundle
\* returns that bundle in its first step, having run no step of the build
\* and written no file; any other call runs the build, and when it
\* returns it has recomputed the five tables and left them as the bundle.
C25_CachedOrRebuilt ==
  /\ [](\A b \in Builds :
          /\ builds[b].pc = "cached" =>
               /\ ~ builds[b].force_rebuild
               /\ builds[b].ret # << >>
               /\ builds[b].full_df = << >>
               /\ WrittenBy(b) = {}
          /\ builds[b].pc = "done" =>
               /\ builds[b].ret = << Recomputed(b) >>
               /\ DOMAIN builds[b].ret[1]
                    = { "employer_meta", "employee_counts", "turnover",
                        "job_flows", "tenure" })
  /\ [][ \A b \in Builds :
           /\ Starts(b) =>
                IF ~ builds'[b].force_rebuild /\ CachedDataset # << >>
                  THEN /\ builds'[b].pc = "cached"
                       /\ builds'[b].ret = << unified_pkl.dataset >>
                       /\ Persisted' = Persisted
                  ELSE /\ builds'[b].pc = "meta"
                       /\ builds'[b].ret = << >>
           /\ builds[b].pc = "cached" => builds'[b] = builds[b]
           /\ (builds[b].pc # "done" /\ builds'[b].pc = "done") =>
                unified_pkl' = [ state |-> "ok", dataset |-> builds'[b].ret[1] ]
       ]_vars

\* One call has rebuilt the bundle from a log with records, and the next,
\* not forced, has returned it.
C25_Witness ==
  /\ builds[1].pc = "done" /\ builds[1].ret[1].turnover # {}
  /\ builds[2].pc = "cached"
  /\ builds[2].ret = builds[1].ret

\* C27: the employee count table and the tenure table of a log are the
\* same whatever the order its files are processed in and however its
\* records are cut into files.
C27_OrderFree ==
  /\ call.fn = "_process_employee_counts" =>
       call.value = ProcessEmployeeCounts(LogFrames, << >>)
  /\ call.fn = "_process_tenure" =>
       call.value = ProcessTenure(LogFrames, << >>)

\* The tenure pass has met a later record of a job before an earlier one,
\* in an arrangement the Event Reconstructor makes other events of.
C27_Witness ==
  /\ call.fn = "_process_tenure" /\ call.value # {}
  /\ \E k, l \in DOMAIN call.input :
       /\ k < l
       /\ \E r \in call.input[k], q \in call.input[l] :
            r.timestamp > q.timestamp /\ r.jobId = q.jobId /\ r.jobId = 1
  /\ StreamEvents(call.input, 1, << >>) # StreamEvents(LogFrames, 1, << >>)

\* The same for the employee counts: one day of one employer lies in two
\* files of the arrangement.
C27_WitnessCounts ==
  /\ call.fn = "_process_employee_counts" /\ call.value # {}
  /\ call.input # LogFrames
  /\ \E k, l \in DOMAIN call.input :
       /\ k # l
       /\ \E r \in call.input[k], q \in call.input[l] :
            /\ DayOf(r.timestamp) = DayOf(q.timestamp)
            /\ r.jobId = 1 /\ q.jobId = 3

\* The employers Jobs.csv names.
JobEmployers == { r.employerId : r \in JobsCsv }

\* Entries less exits of employer e in the events list: Hire and Switch-In
\* carry hires = 1, Quit and Switch-Out carry quits = 1.
NetChange(bag, e) ==
  LET S == { x \in BagToSet(bag) : x.employerId = e }
  IN  SumCol(S, bag, "hires") - SumCol(S, bag, "quits")

\* The participants whose lastJob resolves to employer e.
HeldBy(ljm, e) == { p \in DOMAIN ljm : ResolveEmployer(ljm[p]) = e }

\* 1 when the lastJob of p resolves to an employer, else 0.
Employed(ljm, p) ==
  IF p \in DOMAIN ljm /\ ResolveEmployer(ljm[p]) # None THEN 1 ELSE 0

\* Entries less exits among the events of the rows of one frame.
RECURSIVE NetOfRows(_)
NetOfRows(rows) ==
  IF rows = {} THEN 0
  ELSE LET x == CHOOSE y \in rows : TRUE
           net == IF Len(x.events) = 1
                    THEN x.events[1].hires - x.events[1].quits
                    ELSE 0
       IN  net + NetOfRows(rows \ {x})

\* C28: after every file of the streaming loop, the entries less the exits
\* of an employer in the events list are the number of participants whose
\* lastJob resolves to it, hence never negative; and the events a file adds
\* for a participant change its entries less exits by what its being
\* employed changed by, which keeps that difference at 0 or 1.
C28_HeadcountConserved ==
  /\ [](t_pc = "loop" =>
          \A e \in JobEmployers :
            /\ NetChange(events, e) = Cardinality(HeldBy(last_job_map, e))
            /\ NetChange(events, e) >= 0)
  /\ [][ (t_pc = "loop" /\ t_pc' = "loop") =>
           \A p \in Participants :
             /\ \A x \in RowsOf(processed', p) :
                  Len(x.events) = 2 =>
                    x.events[1].quits = 1 /\ x.events[2].hires = 1
             /\ NetOfRows(RowsOf(processed', p))
                  = Employed(last_job_map', p) - Employed(last_job_map, p) ]_vars

\* All files are read: both participants are with one employer, and the
\* events list holds a Quit and a Switch.
C28_Witness ==
  /\ t_pc = "loop" /\ t_i = NumChunks + 1
  /\ \E e \in JobEmployers : Cardinality(HeldBy(last_job_map, e)) = 2
  /\ \E x \in BagToSet(events) : x.switches = 1
  /\ \E x \in BagToSet(events) : x.quits = 1 /\ x.switches = 0

\* The multiset of (month, employerId, hire or quit) of an events list,
\* as the number of hires and of quits of every (month, employerId).
HiresAndQuits(bag) ==
  { [ month |-> g.month, employerId |-> g.employerId,
      hires |-> g.hires, quits |-> g.quits ] : g \in GroupSum(bag) }

\* The path the call did not take, on the same log.
OtherPathEvents ==
  EventsOf(LogFrames, AllLogsDf(~ call.preloaded))

BlankJobIds ==
  { r \in UNION { logs[i].rows : i \in 1..NumChunks } : r.jobId = NaN }

\* C29: on a log in time order the two paths of _process_turnover append
\* the same hires and quits, month by month and employer by employer, the
\* Quits of the records with a blank jobId among them.
C29_PathsAgree ==
  call.fn = "_process_turnover" =>
    HiresAndQuits(call.value.events) = HiresAndQuits(OtherPathEvents)

\* The same for the logs without a blank jobId.
C29_PathsAgreeWithoutBlanks ==
  (call.fn = "_process_turnover" /\ BlankJobIds = {}) =>
    HiresAndQuits(call.value.events) = HiresAndQuits(OtherPathEvents)

C29_WitnessWithoutBlanks ==
  /\ call.fn = "_process_turnover" /\ BlankJobIds = {}
  /\ \E x \in BagToSet(call.value.events) : x.switches = 1
  /\ \E x \in BagToSet(call.value.events) : x.quits = 1 /\ x.switches = 0

====
